---- MODULE Spec2Model ----
(***************************************************************************)
(* A model of the heartbeat monitor of nats-heartbeat (internal/monitor):   *)
(* the per-subject state store, the allowed-window policy, the ingest path  *)
(* (handleMessage), the periodic miss detector (scan) and the detached      *)
(* delivery of notifications; of Start with priming, the status server and  *)
(* its shutdown; and of the publishing side: connectWithRetry of the agent  *)
(* (cmd/agent) and Publish (pkg/heartbeat).                                 *)
(*                                                                          *)
(* Time is an integer number of ticks; time.Time{} (the zero timestamp) is  *)
(* ZeroTime, and the wall clock starts after it.  A *time.Duration or *int   *)
(* is a sequence of length at most one: <<>> is nil, <<d>> points to d.      *)
(***************************************************************************)
EXTENDS Integers, Sequences, FiniteSets, Bags, TLC

\* ---------------------------------------------------------------- bounds
\* The clock runs from StartTime to MaxTime.
MaxTime == 5
\* At most this many detached notifier goroutines are pending at once.
MaxDetached == 1
\* The wall clock is set back at most this many times.
MaxBack == 1
\* nats.Connect fails at most this many times in a row.
MaxRetries == 7

\* ------------------------------------------------------ program constants
\* time.Time{}: the zero timestamp.
ZeroTime == 0
\* 12 * time.Hour, the default of cfg.RepeatEvery, a tick being an hour.
DefaultRepeatEvery == 12
\* connectWithRetry: `backoff := time.Second`, in seconds.
InitialBackoff == 1
\* connectWithRetry: `const maxBackoff = 30 * time.Second`, in seconds.
MaxBackoff == 30

\* The first reading of the clock.
StartTime == ZeroTime + 1

\* The subject names heartbeats are published under.
Subjects == {"a", "b"}

\* cfg.RepeatEvery as handed to New.
RepeatEveryCfg == {2}

\* A heartbeat is generated this many ticks away from the monitor's clock:
\* stale or fresh.
GenOffsets == {-2, 0}

VARIABLES
    clock,        \* time.Now() of the monitor's host
    nback,        \* how many times the clock has been set back
    repeatEvery,  \* m.cfg.RepeatEvery
    state,        \* m.state: subject name -> state
    mu,           \* m.mu: "free", or the goroutine holding it
    ipc,          \* the subscription callback's position in handleMessage
    hb,           \* handleMessage's decoded message (<<>> when not running)
    detached,     \* the bag of `go m.notifier.Resolved(...)` calls not yet run
    spc,          \* the scan loop's position in scan
    snow,         \* scan's local `now`
    stodo,        \* the subjects scan's range loop has still to visit
    toAlert,      \* scan's local toAlert, from the event being sent onwards
    toResolve,    \* scan's local toResolve, from the event being sent onwards
    slocked,      \* history: m.state as scan found it when it took the lock
    lastEv,       \* history: per subject, the last event decided for it
    ispawn,       \* history: this call of handleMessage has run its `go`
    qpc,          \* the status request's position in statusHandler/snapshot
    qnow,         \* statusHandler's observedAt, snapshot's `now`
    qtodo,        \* the subjects snapshot's range loop has still to visit
    subjects,     \* snapshot's local `subjects`
    startpc,      \* Start's position
    primeStream,  \* m.cfg.PrimeStream
    tctx,         \* primeCache's timeoutCtx: "none", "live", or how it ended
    ppc,          \* primeCache's position
    pstream,      \* the stream's messages the prime consumer has still to get
    primeRuns,    \* history: how many times primeCache has returned
    primeErr,     \* history: the warnings Start has logged for primeCache
    pmsg,         \* primeCache's `msg` (<<>> between two messages)
    acked,        \* history: the payloads primeCache has acknowledged
    nfail,        \* history: per subject, the last notifier call for it failed
    ctxDone,      \* the lifetime context handed to Start is cancelled
    srv,          \* the status server: none, config(ured), starting, ...
    errCh,        \* Start's statusErrCh
    startErr,     \* what Start has returned ("none" while it runs)
    cpc,          \* connectWithRetry's position
    backoff,      \* connectWithRetry's `backoff`, in seconds
    cwaits,       \* history: the waits connectWithRetry has started
    celapsed,     \* the seconds the current wait has lasted
    pubpc,        \* Publish's position
    pubArg,       \* history: the message Publish was called with
    pubMsg,       \* Publish's `msg`
    pubHostname,  \* what hostname() returns to the publisher
    pubSent,      \* the payloads handed to nc.PublishMsg
    pubErr        \* what Publish has returned ("none" while it runs)

vars == <<clock, nback, repeatEvery, state, mu, ipc, hb, detached,
          spc, snow, stodo, toAlert, toResolve, slocked, lastEv, ispawn,
          qpc, qnow, qtodo, subjects,
          startpc, primeStream, tctx, ppc, pstream, primeRuns, primeErr,
          pmsg, acked, nfail, ctxDone, srv, errCh, startErr,
          cpc, backoff, cwaits, celapsed,
          pubpc, pubArg, pubMsg, pubHostname, pubSent, pubErr>>

ingestVars == <<ipc, hb, ispawn>>
scanVars == <<spc, snow, stodo, toAlert, toResolve, slocked>>
statusVars == <<qpc, qnow, qtodo, subjects>>
startVars ==
    <<startpc, primeStream, tctx, ppc, pstream, primeRuns, primeErr>>
ackVars == <<pmsg, acked>>
lifeVars == <<ctxDone, srv, errCh, startErr>>
connVars == <<cpc, backoff, cwaits, celapsed>>
pubVars == <<pubpc, pubArg, pubMsg, pubHostname, pubSent, pubErr>>
\* What no step of handleMessage, scan or snapshot touches.
farVars == <<lifeVars, connVars, pubVars>>

\* ------------------------------------------------------------- arithmetic
\* The elements of a sequence.
Range(seq) == {seq[i] : i \in DOMAIN seq}


\* Go's integer division truncates towards zero.
TruncDiv(a, b) ==
    IF a >= 0 THEN a \div b ELSE -((-a) \div b)

\* ------------------------------------------------------- heartbeat.Message
\* The JSON object a payload decodes to; json = FALSE is a payload that is
\* not a JSON object at all.
Payload(sub, gen, iv, sk, gr, d, h) ==
    [json |-> TRUE, subject |-> sub, generated_at |-> gen, interval |-> iv,
     skippable |-> sk, grace_period |-> gr, description |-> d, host |-> h]

\* The zero Message.
ZeroMessage ==
    [Subject |-> "", GeneratedAt |-> ZeroTime, Interval |-> 0,
     Skippable |-> <<>>, GracePeriod |-> <<>>, Description |-> "", Host |-> ""]

\* A faulty Validate: the interval is not looked at.
ValidateFailsIgnoresInterval(m) ==
    \/ m.Subject = ""
    \/ m.GeneratedAt = ZeroTime
    \/ (m.Skippable # <<>> /\ m.Skippable[1] < 0)
    \/ (m.GracePeriod # <<>> /\ m.GracePeriod[1] < 0)

\* Message.Validate: TRUE when it returns an error.
ValidateFails(m) ==
    \/ m.Subject = ""
    \/ m.GeneratedAt = ZeroTime
    \/ m.Interval <= 0
    \/ (m.Skippable # <<>> /\ m.Skippable[1] < 0)
    \/ (m.GracePeriod # <<>> /\ m.GracePeriod[1] < 0)

\* A faulty Unmarshal: the decoded message is not validated.
UnmarshalNoValidate(data) ==
    IF ~data.json
    THEN [err |-> TRUE, msg |-> ZeroMessage]
    ELSE [err |-> FALSE,
          msg |-> [Subject |-> data.subject,
                   GeneratedAt |-> data.generated_at,
                   Interval |-> data.interval,
                   Skippable |-> data.skippable,
                   GracePeriod |-> data.grace_period,
                   Description |-> data.description,
                   Host |-> data.host]]

\* heartbeat.Unmarshal: the decoded message and whether an error is returned.
Unmarshal(data) ==
    IF ~data.json
    THEN [err |-> TRUE, msg |-> ZeroMessage]
    ELSE LET msg == [Subject |-> data.subject,
                     GeneratedAt |-> data.generated_at,
                     Interval |-> data.interval,
                     Skippable |-> data.skippable,
                     GracePeriod |-> data.grace_period,
                     Description |-> data.description,
                     Host |-> data.host]
         IN [err |-> ValidateFails(msg), msg |-> msg]

\* ------------------------------------------------------------ monitor state
descriptionOrSubject(msg) ==
    IF msg.Description # "" THEN msg.Description ELSE msg.Subject

\* A faulty newState: the description is not defaulted to the subject.
newStateNoFallback(msg) ==
    [subject |-> msg.Subject,
     description |-> msg.Description,
     host |-> msg.Host,
     lastSeen |-> msg.GeneratedAt,
     interval |-> msg.Interval,
     grace |-> msg.GracePeriod,
     alertActive |-> FALSE,
     missCount |-> 0,
     lastAlert |-> ZeroTime]

\* A faulty newState: the subject field is left empty.
newStateBlankSubject(msg) ==
    [subject |-> "",
     description |-> descriptionOrSubject(msg),
     host |-> msg.Host,
     lastSeen |-> msg.GeneratedAt,
     interval |-> msg.Interval,
     grace |-> msg.GracePeriod,
     alertActive |-> FALSE,
     missCount |-> 0,
     lastAlert |-> ZeroTime]

\* A faulty newState: a new subject starts with its alert raised.
newStateAlerting(msg) ==
    [subject |-> msg.Subject,
     description |-> descriptionOrSubject(msg),
     host |-> msg.Host,
     lastSeen |-> msg.GeneratedAt,
     interval |-> msg.Interval,
     grace |-> msg.GracePeriod,
     alertActive |-> TRUE,
     missCount |-> 0,
     lastAlert |-> ZeroTime]

newState(msg) ==
    [subject |-> msg.Subject,
     description |-> descriptionOrSubject(msg),
     host |-> msg.Host,
     lastSeen |-> msg.GeneratedAt,
     interval |-> msg.Interval,
     grace |-> msg.GracePeriod,
     alertActive |-> FALSE,
     missCount |-> 0,
     lastAlert |-> ZeroTime]

\* A faulty allowedWindow: any grace that is set is taken, a zero one too.
allowedWindowAnyGrace(s) ==
    IF s.grace # <<>> THEN s.grace[1] ELSE s.interval

allowedWindow(s) ==
    IF s.grace # <<>> /\ s.grace[1] > 0 THEN s.grace[1] ELSE s.interval

\* New: the defaulting of cfg.RepeatEvery.
New(cfgRepeatEvery) ==
    IF cfgRepeatEvery <= 0 THEN DefaultRepeatEvery ELSE cfgRepeatEvery

\* notifier.Event as scan builds it.
Event(s, missFor, missCount) ==
    [Subject |-> s.subject, Description |-> s.description, Host |-> s.host,
     LastSeen |-> s.lastSeen, Interval |-> s.interval,
     MissFor |-> missFor, MissCount |-> missCount]

\* A faulty update: the host is taken only from a message that names one.
UpdateStateKeepsHost(s, msg) ==
    [s EXCEPT !.lastSeen = msg.GeneratedAt,
              !.interval = msg.Interval,
              !.grace = msg.GracePeriod,
              !.host = IF msg.Host # "" THEN msg.Host ELSE @,
              !.description = descriptionOrSubject(msg)]

\* A faulty update: lastSeen is left as it was.
UpdateStateKeepsLastSeen(s, msg) ==
    [s EXCEPT !.interval = msg.Interval,
              !.grace = msg.GracePeriod,
              !.host = msg.Host,
              !.description = descriptionOrSubject(msg)]

\* handleMessage, known subject: the fields overwritten from the message.
UpdateState(s, msg) ==
    [s EXCEPT !.lastSeen = msg.GeneratedAt,
              !.interval = msg.Interval,
              !.grace = msg.GracePeriod,
              !.host = msg.Host,
              !.description = descriptionOrSubject(msg)]

\* A faulty resolve on heartbeat: Resolved is sent and alertActive stays set.
ResolveOnHeartbeatKeepsAlert(s) ==
    IF s.alertActive
    THEN [st |-> [s EXCEPT !.missCount = 0], spawned |-> <<Event(s, 0, 0)>>]
    ELSE [st |-> s, spawned |-> <<>>]

\* handleMessage, `if s.alertActive { ... }`: the state afterwards and the
\* Resolved calls started with `go`.
ResolveOnHeartbeat(s) ==
    IF s.alertActive
    THEN [st |-> [s EXCEPT !.alertActive = FALSE, !.missCount = 0],
          spawned |-> <<Event(s, 0, 0)>>]
    ELSE [st |-> s, spawned |-> <<>>]

\* A faulty recovery branch: the subject is left as it is.
ScanWithinKeepsAlert(s, elapsed) ==
    [st |-> s, alert |-> <<>>, resolve |-> <<>>]

\* A faulty recovery branch: the miss count is not reset.
ScanWithinKeepsMissCount(s, elapsed) ==
    IF s.alertActive
    THEN [st |-> [s EXCEPT !.alertActive = FALSE, !.lastAlert = ZeroTime],
          alert |-> <<>>,
          resolve |-> <<Event(s, elapsed, s.missCount)>>]
    ELSE [st |-> s, alert |-> <<>>, resolve |-> <<>>]

\* scan, `if elapsed <= allowed { ... continue }`: the state afterwards and
\* what is appended to toAlert and toResolve.
ScanWithin(s, elapsed) ==
    IF s.alertActive
    THEN [st |-> [s EXCEPT !.alertActive = FALSE, !.missCount = 0,
                           !.lastAlert = ZeroTime],
          alert |-> <<>>,
          resolve |-> <<Event(s, elapsed, s.missCount)>>]
    ELSE [st |-> s, alert |-> <<>>, resolve |-> <<>>]

\* The faulty variants of the missed branch: the first alert stamps
\* lastAlert with `stamp`, and an alerting subject is alerted again when
\* `due` holds.
MissedVariant(s, elapsed, now, stamp, due) ==
    LET missCount == TruncDiv(elapsed, s.interval)
        s1 == [s EXCEPT !.missCount = missCount]
    IN IF ~s.alertActive
       THEN [st |-> [s1 EXCEPT !.alertActive = TRUE, !.lastAlert = stamp],
             alert |-> <<Event(s1, elapsed, missCount)>>,
             resolve |-> <<>>]
       ELSE IF due
       THEN [st |-> [s1 EXCEPT !.lastAlert = now],
             alert |-> <<Event(s1, elapsed, missCount)>>,
             resolve |-> <<>>]
       ELSE [st |-> s1, alert |-> <<>>, resolve |-> <<>>]

\* The first alert does not record when it was raised.
ScanMissedNoLastAlert(s, now, elapsed, repeat) ==
    MissedVariant(s, elapsed, now, s.lastAlert, now - s.lastAlert >= repeat)

\* No debounce: every scan alerts again.
ScanMissedAlwaysRepeats(s, now, elapsed, repeat) ==
    MissedVariant(s, elapsed, now, now, TRUE)

\* The debounce is one tick short.
ScanMissedEarlyRepeat(s, now, elapsed, repeat) ==
    MissedVariant(s, elapsed, now, now, now - s.lastAlert >= repeat - 1)

\* The alert is never repeated.
ScanMissedNeverRepeats(s, now, elapsed, repeat) ==
    MissedVariant(s, elapsed, now, now, FALSE)

\* The events carry the miss count of the previous scan.
ScanMissedStaleCount(s, now, elapsed, repeat) ==
    LET missCount == TruncDiv(elapsed, s.interval)
        s1 == [s EXCEPT !.missCount = missCount]
    IN IF ~s.alertActive
       THEN [st |-> [s1 EXCEPT !.alertActive = TRUE, !.lastAlert = now],
             alert |-> <<Event(s1, elapsed, s.missCount)>>,
             resolve |-> <<>>]
       ELSE IF now - s.lastAlert >= repeat
       THEN [st |-> [s1 EXCEPT !.lastAlert = now],
             alert |-> <<Event(s1, elapsed, s.missCount)>>,
             resolve |-> <<>>]
       ELSE [st |-> s1, alert |-> <<>>, resolve |-> <<>>]

\* scan, the rest of the loop body (elapsed > allowed): the miss count, the
\* first alert, the repeated alert.
ScanMissed(s, now, elapsed, repeat) ==
    LET missCount == TruncDiv(elapsed, s.interval)
        s1 == [s EXCEPT !.missCount = missCount]
    IN IF ~s.alertActive
       THEN [st |-> [s1 EXCEPT !.alertActive = TRUE, !.lastAlert = now],
             alert |-> <<Event(s1, elapsed, missCount)>>,
             resolve |-> <<>>]
       ELSE IF now - s.lastAlert >= repeat
       THEN [st |-> [s1 EXCEPT !.lastAlert = now],
             alert |-> <<Event(s1, elapsed, missCount)>>,
             resolve |-> <<>>]
       ELSE [st |-> s1, alert |-> <<>>, resolve |-> <<>>]

\* A faulty loop body: no subject is ever found missing.
ScanSubjectNeverMisses(s, now, repeat) ==
    ScanWithin(s, now - s.lastSeen)

\* The body of scan's range loop for one subject.
ScanSubject(s, now, repeat) ==
    LET elapsed == now - s.lastSeen
        allowed == allowedWindow(s)
    IN IF elapsed <= allowed
       THEN ScanWithin(s, elapsed)
       ELSE ScanMissed(s, now, elapsed, repeat)

\* --------------------------------------------------------------- payloads
\* The well-formed heartbeats the publishers send, but for generated_at.
GenTimes ==
    {t \in {clock + o : o \in GenOffsets} : t > ZeroTime}

ValidPayloads ==
    UNION {
        { Payload("a", t, 1, <<>>, <<>>, "", ""),
          Payload("a", t, 2, <<1>>, <<3>>, "db", "h1"),
          Payload("b", t, 1, <<2>>, <<0>>, "web", "") } : t \in GenTimes }

\* Payloads Unmarshal rejects.
InvalidPayloads ==
    { [Payload("a", clock, 1, <<>>, <<>>, "", "") EXCEPT !.json = FALSE],
      Payload("", clock, 1, <<>>, <<>>, "", ""),
      Payload("a", ZeroTime, 1, <<>>, <<>>, "", ""),
      Payload("a", clock, 0, <<>>, <<>>, "", ""),
      Payload("b", clock, 1, <<-1>>, <<>>, "", ""),
      Payload("b", clock, 1, <<>>, <<-1>>, "", "") }

Payloads == ValidPayloads \cup InvalidPayloads

\* ------------------------------------------------------------------- Init
NoEvent == [kind |-> "none", by |-> "none", at |-> ZeroTime]

\* No notifier call for the subject has returned an error.
NoFailure == [kind |-> "none", at |-> ZeroTime]

\* Nothing primed or acknowledged, no notifier call has failed.
InitAux ==
    /\ pmsg = <<>>
    /\ acked = {}
    /\ nfail = [s \in Subjects |-> NoFailure]

\* The bus connection is made and the publisher is idle.
InitClient ==
    /\ cpc = "connected"
    /\ backoff = 0
    /\ cwaits = <<>>
    /\ celapsed = 0
    /\ pubpc = "idle"
    /\ pubArg = ZeroMessage
    /\ pubMsg = ZeroMessage
    /\ pubHostname = [name |-> "", err |-> FALSE]
    /\ pubSent = <<>>
    /\ pubErr = "none"

\* A monitor made by New without prime stream, whose Start has subscribed,
\* started the status server and entered its loop.
Init ==
    /\ clock = StartTime
    /\ nback = 0
    /\ repeatEvery \in {New(r) : r \in RepeatEveryCfg}
    /\ state = <<>>
    /\ mu = "free"
    /\ ipc = "idle"
    /\ hb = <<>>
    /\ detached = EmptyBag
    /\ spc = "idle"
    /\ snow = ZeroTime
    /\ stodo = {}
    /\ toAlert = <<>>
    /\ toResolve = <<>>
    /\ slocked = <<>>
    /\ lastEv = [s \in Subjects |-> NoEvent]
    /\ ispawn = FALSE
    /\ qpc = "idle"
    /\ qnow = ZeroTime
    /\ qtodo = {}
    /\ subjects = <<>>
    /\ startpc = "loop"
    /\ primeStream = ""
    /\ tctx = "none"
    /\ ppc = "idle"
    /\ pstream = {}
    /\ primeRuns = 0
    /\ primeErr = 0
    /\ InitAux
    /\ InitClient
    /\ ctxDone = FALSE
    /\ srv = "listening"
    /\ errCh = "open"
    /\ startErr = "none"

\* ------------------------------------------------------------------ clock
\* A faulty clock: a reading may be earlier than the one before.
TickUnsteady ==
    /\ clock < MaxTime
    /\ clock' \in {clock + 1} \cup (StartTime..(clock - 1))
    /\ UNCHANGED <<farVars, ackVars, nfail, statusVars, startVars, nback,
                   repeatEvery, state, mu, ingestVars, detached, scanVars,
                   lastEv>>

Tick ==
    /\ clock < MaxTime
    /\ clock' = clock + 1
    /\ UNCHANGED <<farVars, ackVars, nfail, statusVars, startVars, nback,
                   repeatEvery, state, mu, ingestVars, detached, scanVars,
                   lastEv>>

\* The wall clock is set back (a clock adjustment on the monitor's host).
ClockBack ==
    /\ nback < MaxBack
    /\ nback' = nback + 1
    /\ \E t \in StartTime..(clock - 1) : clock' = t
    /\ UNCHANGED <<farVars, ackVars, nfail, statusVars, startVars, repeatEvery,
                   state, mu, ingestVars, detached, scanVars, lastEv>>

\* ---------------------------------------------------------- handleMessage
\* Handling this message starts a goroutine: the model holds the message
\* back while MaxDetached earlier goroutines have still to run.
WillSpawn(msg) ==
    /\ msg.Subject \in DOMAIN state
    /\ state[msg.Subject].alertActive

\* handleMessage is called with a payload.  Unmarshal fails: the error is
\* logged and handleMessage returns.  Otherwise m.mu.Lock() and the lookup:
\* a new subject is stored, a known one has its fields overwritten.
HandleMessageEnter(data) ==
    /\ ipc = "idle"
    /\ LET r == Unmarshal(data)
       IN IF r.err
          THEN /\ ipc' = "rejected"
               /\ UNCHANGED <<hb, mu, state>>
          ELSE /\ mu = "free"
               /\ WillSpawn(r.msg) => BagCardinality(detached) < MaxDetached
               /\ mu' = "ingest"
               /\ hb' = <<r.msg>>
               /\ IF r.msg.Subject \notin DOMAIN state
                  THEN /\ state' = (r.msg.Subject :> newState(r.msg)) @@ state
                       /\ ipc' = "added"
                  ELSE /\ state' = [state EXCEPT
                                ![r.msg.Subject] = UpdateState(@, r.msg)]
                       /\ ipc' = "resolve"
    /\ UNCHANGED <<farVars, nfail, statusVars, clock, nback,
                   repeatEvery, detached, scanVars, lastEv, ispawn>>

\* The live subscription's callback: it exists once Start has subscribed.
IngestDeliver(data) ==
    /\ startpc \in {"ticker", "loop"}
    /\ HandleMessageEnter(data)
    /\ UNCHANGED <<startVars, ackVars>>

\* handleMessage returns after logging the decoding error.
IngestRejected ==
    /\ ipc = "rejected"
    /\ ipc' = "idle"
    /\ UNCHANGED <<farVars, ackVars, nfail, statusVars, startVars, clock, nback,
                   repeatEvery, state, mu, hb, ispawn, detached, scanVars,
                   lastEv>>

\* if s.alertActive { ... go m.notifier.Resolved(...) }
\* The goroutine's event is built here, under the lock; of a pending call
\* `detached` keeps the subject it is about.
IngestResolve ==
    /\ ipc = "resolve"
    /\ LET sub == hb[1].Subject
           r == ResolveOnHeartbeat(state[sub])
       IN /\ state' = [state EXCEPT ![sub] = r.st]
          /\ detached' = detached (+) SetToBag({e.Subject : e \in Range(r.spawned)})
          /\ lastEv' = IF r.spawned # <<>>
                       THEN [lastEv EXCEPT
                                ![sub] = [kind |-> "resolved", by |-> "ingest",
                                          at |-> ZeroTime]]
                       ELSE lastEv
          /\ ispawn' = (r.spawned # <<>>)
    /\ ipc' = "unlock"
    /\ UNCHANGED <<farVars, ackVars, nfail, statusVars, startVars, clock, nback,
                   repeatEvery, mu, hb, scanVars>>

\* The deferred m.mu.Unlock(), on either return.
IngestUnlock ==
    /\ ipc \in {"added", "unlock"}
    /\ mu' = "free"
    /\ ipc' = "idle"
    /\ hb' = <<>>
    /\ ispawn' = FALSE
    /\ UNCHANGED <<farVars, ackVars, nfail, statusVars, startVars, clock, nback,
                   repeatEvery, state, detached, scanVars, lastEv>>

\* A goroutine started by handleMessage runs its m.notifier.Resolved call.
DetachedResolved ==
    /\ \E evt \in BagToSet(detached) :
          detached' = detached (-) SetToBag({evt})
    /\ UNCHANGED <<farVars, ackVars, nfail, statusVars, startVars, clock, nback,
                   repeatEvery, state, mu, ingestVars, scanVars, lastEv>>

\* ------------------------------------------------------------------- scan
\* The ticker fires in Start's loop: now := time.Now(), and the two lists
\* start empty.
ScanStart ==
    /\ startpc = "loop"
    /\ spc = "idle"
    /\ snow' = clock
    /\ toAlert' = <<>>
    /\ toResolve' = <<>>
    /\ spc' = "lock"
    /\ UNCHANGED <<farVars, ackVars, nfail, statusVars, startVars, clock, nback,
                   repeatEvery, state, mu, ingestVars, detached, stodo, slocked,
                   lastEv>>

\* m.mu.Lock(), and the range loop begins.
ScanLock ==
    /\ spc = "lock"
    /\ mu = "free"
    /\ mu' = "scan"
    /\ stodo' = DOMAIN state
    /\ slocked' = state
    /\ spc' = "iter"
    /\ UNCHANGED <<farVars, ackVars, nfail, statusVars, startVars, clock, nback,
                   repeatEvery, state, ingestVars, detached, snow, toAlert,
                   toResolve, lastEv>>

\* One iteration of `for _, s := range m.state`, in the map's own order.
ScanVisit(sub) ==
    /\ spc = "iter"
    /\ sub \in stodo
    /\ LET r == ScanSubject(state[sub], snow, repeatEvery)
       IN /\ state' = [state EXCEPT ![sub] = r.st]
          /\ toAlert' = toAlert \o r.alert
          /\ toResolve' = toResolve \o r.resolve
          /\ lastEv' =
                [lastEv EXCEPT
                    ![sub] = IF r.alert # <<>>
                             THEN [kind |-> "alert", by |-> "scan",
                                   at |-> snow]
                             ELSE IF r.resolve # <<>>
                             THEN [kind |-> "resolved", by |-> "scan",
                                   at |-> ZeroTime]
                             ELSE @]
    /\ stodo' = stodo \ {sub}
    /\ UNCHANGED <<farVars, ackVars, nfail, statusVars, startVars, clock, nback,
                   repeatEvery, mu, ingestVars, detached, spc, snow, slocked>>
\* A faulty scan: it goes on to its notifier calls with the lock held.
ScanKeepsLock ==
    /\ spc = "iter"
    /\ stodo = {}
    /\ slocked' = <<>>
    /\ spc' = "alerts"
    /\ UNCHANGED <<farVars, ackVars, nfail, statusVars, startVars, clock, nback,
                   repeatEvery, state, mu, ingestVars, detached, snow, stodo,
                   toAlert, toResolve, lastEv>>

\* The range loop is over: m.mu.Unlock().
ScanUnlock ==
    /\ spc = "iter"
    /\ stodo = {}
    /\ mu' = "free"
    /\ slocked' = <<>>
    /\ spc' = "alerts"
    /\ UNCHANGED <<farVars, ackVars, nfail, statusVars, startVars, clock, nback,
                   repeatEvery, state, ingestVars, detached, snow, stodo,
                   toAlert, toResolve, lastEv>>

\* for _, evt := range toAlert { m.notifier.Alert(ctx, evt) }
ScanSendAlert ==
    /\ spc = "alerts"
    /\ IF toAlert # <<>>
       THEN /\ toAlert' = Tail(toAlert)
            /\ UNCHANGED spc
       ELSE /\ spc' = "resolves"
            /\ UNCHANGED toAlert
    /\ UNCHANGED <<farVars, ackVars, nfail, statusVars, startVars, clock, nback,
                   repeatEvery, state, mu, ingestVars, detached, snow, stodo,
                   toResolve, slocked, lastEv>>

\* for _, evt := range toResolve { m.notifier.Resolved(ctx, evt) }
ScanSendResolved ==
    /\ spc = "resolves"
    /\ IF toResolve # <<>>
       THEN /\ toResolve' = Tail(toResolve)
            /\ UNCHANGED spc
       ELSE /\ spc' = "idle"
            /\ UNCHANGED toResolve
    /\ UNCHANGED <<farVars, ackVars, nfail, statusVars, startVars, clock, nback,
                   repeatEvery, state, mu, ingestVars, detached, snow, stodo,
                   toAlert, slocked, lastEv>>

\* ---------------------------------------------------- the notifier fails
\* Of each subject, nfail keeps the last notifier call that returned an
\* error: its kind and the `now` of the scan that had collected the event.

\* A faulty error branch: the failed Alert's subject is re-armed, so that
\* the next scan sends the Alert again.
ScanAlertFailedRearms ==
    /\ spc = "alerts"
    /\ toAlert # <<>>
    /\ mu = "free"
    /\ LET sub == Head(toAlert).Subject
       IN /\ nfail' = [nfail EXCEPT ![sub] = [kind |-> "alert", at |-> snow]]
          /\ state' = [state EXCEPT ![sub].lastAlert = ZeroTime]
    /\ toAlert' = Tail(toAlert)
    /\ UNCHANGED <<farVars, ackVars, statusVars, startVars, clock, nback,
                   repeatEvery, mu, ingestVars, detached, spc, snow,
                   stodo, toResolve, slocked, lastEv>>

\* m.notifier.Alert returns an error: it is logged, and the loop goes on
\* to the next event.
ScanAlertFailed ==
    /\ spc = "alerts"
    /\ toAlert # <<>>
    /\ nfail' = [nfail EXCEPT
                    ![Head(toAlert).Subject] = [kind |-> "alert", at |-> snow]]
    /\ toAlert' = Tail(toAlert)
    /\ UNCHANGED <<farVars, ackVars, statusVars, startVars, clock, nback,
                   repeatEvery, state, mu, ingestVars, detached, spc, snow,
                   stodo, toResolve, slocked, lastEv>>

\* m.notifier.Resolved returns an error: it is logged, and the loop goes on
\* to the next event.
ScanResolvedFailed ==
    /\ spc = "resolves"
    /\ toResolve # <<>>
    /\ nfail' = [nfail EXCEPT
                    ![Head(toResolve).Subject] =
                        [kind |-> "resolved", at |-> snow]]
    /\ toResolve' = Tail(toResolve)
    /\ UNCHANGED <<farVars, ackVars, statusVars, startVars, clock, nback,
                   repeatEvery, state, mu, ingestVars, detached, spc, snow,
                   stodo, toAlert, slocked, lastEv>>

\* The Resolved call of a goroutine started by handleMessage returns an
\* error: the `go` statement drops it.
DetachedResolvedFailed ==
    /\ \E sub \in BagToSet(detached) :
          /\ detached' = detached (-) SetToBag({sub})
          /\ nfail' = [nfail EXCEPT
                          ![sub] = [kind |-> "resolved", at |-> ZeroTime]]
    /\ UNCHANGED <<farVars, ackVars, statusVars, startVars, clock, nback,
                   repeatEvery, state, mu, ingestVars, scanVars, lastEv>>

\* --------------------------------------------------------------- snapshot
\* The byte a one-letter subject name consists of: Go compares strings byte
\* by byte.
ByteOf == "a" :> 97 @@ "b" :> 98

\* subjects[i].Subject < subjects[j].Subject
SubjectLess(x, y) == ByteOf[x.Subject] < ByteOf[y.Subject]

\* time.Duration.String(), a tick being an hour: "0s", "3h0m0s", "-1h0m0s".
DurationString(d) ==
    IF d = 0 THEN "0s" ELSE ToString(d) \o "h0m0s"

\* A faulty entry: the miss count is the one the last scan stored.
subjectStateStoredCount(s, now) ==
    LET allowed == allowedWindow(s)
        elapsed == now - s.lastSeen
        missing == elapsed > allowed
    IN [Subject |-> s.subject,
        Description |-> s.description,
        Host |-> s.host,
        LastSeen |-> s.lastSeen,
        Interval |-> DurationString(s.interval),
        Grace |-> IF s.grace # <<>> /\ s.grace[1] > 0
                  THEN <<DurationString(s.grace[1])>>
                  ELSE <<>>,
        AllowedWindow |-> DurationString(allowed),
        Missing |-> missing,
        MissFor |-> IF missing THEN DurationString(elapsed) ELSE "",
        MissCount |-> s.missCount,
        AlertActive |-> s.alertActive]

\* snapshot, the body of its range loop: the subjectState built for one
\* subject.
subjectState(s, now) ==
    LET allowed == allowedWindow(s)
        elapsed == now - s.lastSeen
        missing == elapsed > allowed
    IN [Subject |-> s.subject,
        Description |-> s.description,
        Host |-> s.host,
        LastSeen |-> s.lastSeen,
        Interval |-> DurationString(s.interval),
        Grace |-> IF s.grace # <<>> /\ s.grace[1] > 0
                  THEN <<DurationString(s.grace[1])>>
                  ELSE <<>>,
        AllowedWindow |-> DurationString(allowed),
        Missing |-> missing,
        MissFor |-> IF missing THEN DurationString(elapsed) ELSE "",
        MissCount |-> IF missing /\ s.interval > 0
                      THEN TruncDiv(elapsed, s.interval)
                      ELSE 0,
        AlertActive |-> s.alertActive]

\* One element put at its place in a sorted slice.
RECURSIVE SortInsert(_, _)
SortInsert(e, sorted) ==
    IF sorted = <<>>
    THEN <<e>>
    ELSE IF SubjectLess(e, Head(sorted))
    THEN <<e>> \o sorted
    ELSE <<Head(sorted)>> \o SortInsert(e, Tail(sorted))

\* A faulty sort: the slice is left in the map's order.
SortSliceNoop(seq) == seq

\* sort.Slice(subjects, less) with less comparing the Subject fields.
RECURSIVE SortSlice(_)
SortSlice(seq) ==
    IF seq = <<>>
    THEN <<>>
    ELSE SortInsert(Head(seq), SortSlice(Tail(seq)))

\* A status request arrives: observedAt := time.Now().
StatusRequest ==
    /\ srv = "listening"
    /\ qpc = "idle"
    /\ qnow' = clock
    /\ qpc' = "lock"
    /\ UNCHANGED <<farVars, ackVars, nfail, startVars, clock, nback,
                   repeatEvery, state, mu, ingestVars, detached, scanVars,
                   lastEv, qtodo, subjects>>

\* A faulty snapshot: it does not wait for the lock.
SnapshotLockNoWait ==
    /\ qpc = "lock"
    /\ mu' = "status"
    /\ qtodo' = DOMAIN state
    /\ subjects' = <<>>
    /\ qpc' = "iter"
    /\ UNCHANGED <<farVars, ackVars, nfail, startVars, clock, nback,
                   repeatEvery, state, ingestVars, detached, scanVars, lastEv,
                   qnow>>

\* snapshot: m.mu.Lock(), the empty slice, and the range loop begins.
SnapshotLock ==
    /\ qpc = "lock"
    /\ mu = "free"
    /\ mu' = "status"
    /\ qtodo' = DOMAIN state
    /\ subjects' = <<>>
    /\ qpc' = "iter"
    /\ UNCHANGED <<farVars, ackVars, nfail, startVars, clock, nback,
                   repeatEvery, state, ingestVars, detached, scanVars, lastEv,
                   qnow>>

\* A faulty snapshot: a subject it finds missing is marked as alerting.
SnapshotVisitMarksMissing(sub) ==
    /\ qpc = "iter"
    /\ sub \in qtodo
    /\ subjects' = Append(subjects, subjectState(state[sub], qnow))
    /\ qtodo' = qtodo \ {sub}
    /\ state' = [state EXCEPT ![sub].alertActive =
                     @ \/ subjectState(state[sub], qnow).Missing]
    /\ UNCHANGED <<farVars, ackVars, nfail, startVars, clock, nback,
                   repeatEvery, mu, ingestVars, detached, scanVars, lastEv, qpc,
                   qnow>>

\* One iteration of snapshot's `for _, s := range m.state`, in the map's
\* own order.
SnapshotVisit(sub) ==
    /\ qpc = "iter"
    /\ sub \in qtodo
    /\ subjects' = Append(subjects, subjectState(state[sub], qnow))
    /\ qtodo' = qtodo \ {sub}
    /\ UNCHANGED <<farVars, ackVars, nfail, startVars, clock, nback,
                   repeatEvery, state, mu, ingestVars, detached, scanVars,
                   lastEv, qpc, qnow>>

\* The range loop is over: sort.Slice.
SnapshotSort ==
    /\ qpc = "iter"
    /\ qtodo = {}
    /\ subjects' = SortSlice(subjects)
    /\ qpc' = "return"
    /\ UNCHANGED <<farVars, ackVars, nfail, startVars, clock, nback,
                   repeatEvery, state, mu, ingestVars, detached, scanVars,
                   lastEv, qnow, qtodo>>

\* return subjects, with the deferred m.mu.Unlock(); statusHandler encodes
\* the response and is ready for the next request.
SnapshotReturn ==
    /\ qpc = "return"
    /\ mu' = "free"
    /\ qpc' = "idle"
    /\ qnow' = ZeroTime
    /\ subjects' = <<>>
    /\ UNCHANGED <<farVars, ackVars, nfail, startVars, clock, nback,
                   repeatEvery, state, ingestVars, detached, scanVars, lastEv,
                   qtodo>>

\* ------------------------------------------------------ Start, primeCache
\* Start is called: the connection check, then the prime stream if one is
\* configured.  (A nil notifier is replaced by notifier.Nop.)
StartBegin ==
    /\ startpc = "start"
    /\ \E ncIsNil \in BOOLEAN :
          IF ncIsNil
          THEN startpc' = "returned" /\ startErr' = "nc" /\ UNCHANGED ppc
          ELSE IF primeStream # ""
          THEN startpc' = "prime" /\ ppc' = "jetstream"
               /\ UNCHANGED startErr
          ELSE startpc' = "subscribe" /\ UNCHANGED <<ppc, startErr>>
    /\ UNCHANGED <<ctxDone, srv, errCh, connVars, pubVars, ackVars, nfail,
                   statusVars, clock, nback,
                   repeatEvery, state, mu, ingestVars, detached, scanVars,
                   lastEv, primeStream, tctx, pstream,
                   primeRuns, primeErr>>

\* primeCache: m.nc.JetStream().
PrimeJetStream ==
    /\ ppc = "jetstream"
    /\ \E ok \in BOOLEAN :
          IF ok
          THEN ppc' = "subscribe" /\ UNCHANGED pstream
          ELSE ppc' = "ret_err" /\ pstream' = {}
    /\ UNCHANGED <<farVars, ackVars, nfail, statusVars, clock, nback,
                   repeatEvery, state, mu, ingestVars, detached, scanVars,
                   lastEv, startpc, primeStream, tctx, primeRuns, primeErr>>

\* primeCache: js.SubscribeSync(...) and, when it succeeds,
\* context.WithTimeout(ctx, 2*time.Second): one deadline for the whole loop,
\* already cancelled when the parent is.
PrimeSubscribe ==
    /\ ppc = "subscribe"
    /\ \E ok \in BOOLEAN :
          IF ok
          THEN /\ ppc' = "next"
               /\ tctx' = IF ctxDone THEN "canceled" ELSE "live"
               /\ UNCHANGED pstream
          ELSE ppc' = "ret_err" /\ pstream' = {} /\ UNCHANGED tctx
    /\ UNCHANGED <<farVars, ackVars, nfail, statusVars, clock, nback,
                   repeatEvery, state, mu, ingestVars, detached, scanVars,
                   lastEv, startpc, primeStream, primeRuns, primeErr>>

\* The 2 s of timeoutCtx are over.
PrimeTimeout ==
    /\ tctx = "live"
    /\ tctx' = "deadline"
    /\ UNCHANGED <<farVars, ackVars, nfail, statusVars, clock, nback,
                   repeatEvery, state, mu, ingestVars, detached, scanVars,
                   lastEv, startpc, primeStream, ppc, pstream,
                   primeRuns, primeErr>>

\* A faulty read: a waiting message is returned whatever the context says,
\* as with a deadline that starts anew at every read.
PrimeHandleAnyContext(data) ==
    /\ ppc = "next"
    /\ data \in pstream
    /\ HandleMessageEnter(data)
    /\ pstream' = pstream \ {data}
    /\ pmsg' = <<data>>
    /\ ppc' = "handle"
    /\ UNCHANGED <<startpc, primeStream, tctx, primeRuns, primeErr, acked>>

\* primeCache: sub.NextMsgWithContext, called with a context that is not
\* done, returns a message and it is handed to handleMessage.
PrimeHandle(data) ==
    /\ ppc = "next"
    /\ tctx = "live"
    /\ data \in pstream
    /\ HandleMessageEnter(data)
    /\ pstream' = pstream \ {data}
    /\ pmsg' = <<data>>
    /\ ppc' = "handle"
    /\ UNCHANGED <<startpc, primeStream, tctx, primeRuns, primeErr, acked>>

\* primeCache: handleMessage has returned; msg.Ack() and the next turn of
\* the loop.
PrimeAck ==
    /\ ppc = "handle"
    /\ ipc = "idle"
    /\ acked' = acked \cup {pmsg[1]}
    /\ pmsg' = <<>>
    /\ ppc' = "next"
    /\ UNCHANGED <<farVars, nfail, statusVars, clock, nback,
                   repeatEvery, state, mu, ingestVars, detached, scanVars,
                   lastEv, startpc, primeStream, tctx, pstream,
                   primeRuns, primeErr>>

\* primeCache: NextMsgWithContext fails with context.DeadlineExceeded, and
\* primeCache returns nil (the deferred Unsubscribe ends the consumer).
PrimeDeadline ==
    /\ ppc = "next"
    /\ tctx = "deadline"
    /\ ppc' = "ret_nil"
    /\ pstream' = {}
    /\ tctx' = "none"
    /\ UNCHANGED <<farVars, ackVars, nfail, statusVars, clock, nback,
                   repeatEvery, state, mu, ingestVars, detached, scanVars,
                   lastEv, startpc, primeStream, primeRuns, primeErr>>

\* primeCache: NextMsgWithContext fails with another error (the context is
\* cancelled through its parent, or the read itself fails), which
\* primeCache returns.
PrimeReadError ==
    /\ ppc = "next"
    /\ tctx \in {"live", "canceled"}
    /\ ppc' = "ret_err"
    /\ pstream' = {}
    /\ tctx' = "none"
    /\ UNCHANGED <<farVars, ackVars, nfail, statusVars, clock, nback,
                   repeatEvery, state, mu, ingestVars, detached, scanVars,
                   lastEv, startpc, primeStream, primeRuns, primeErr>>

\* A faulty Start: a priming error makes Start return.
StartPrimedFatal ==
    /\ startpc = "prime"
    /\ ppc \in {"ret_nil", "ret_err"}
    /\ ppc' = "idle"
    /\ primeRuns' = primeRuns + 1
    /\ primeErr' = primeErr
    /\ startpc' = IF ppc = "ret_err" THEN "returned" ELSE "subscribe"
    /\ UNCHANGED <<farVars, ackVars, nfail, statusVars, clock, nback,
                   repeatEvery, state, mu, ingestVars, detached, scanVars,
                   lastEv, primeStream, tctx, pstream>>

\* Start: primeCache has returned; `if err != nil { m.logger.Warn(...) }`,
\* and on to the subscription.
StartPrimed ==
    /\ startpc = "prime"
    /\ ppc \in {"ret_nil", "ret_err"}
    /\ ppc' = "idle"
    /\ primeRuns' = primeRuns + 1
    /\ primeErr' = IF ppc = "ret_err" THEN primeErr + 1 ELSE primeErr
    /\ startpc' = "subscribe"
    /\ UNCHANGED <<farVars, ackVars, nfail, statusVars, clock, nback,
                   repeatEvery, state, mu, ingestVars, detached, scanVars,
                   lastEv, primeStream, tctx, pstream>>

\* A faulty Start: the live subscription is made without priming first.
StartSubscribeEarly ==
    /\ startpc \in {"subscribe", "prime"}
    /\ startpc' = "ticker"
    /\ UNCHANGED <<farVars, ackVars, nfail, statusVars, clock, nback,
                   repeatEvery, state, mu, ingestVars, detached, scanVars,
                   lastEv, primeStream, tctx, ppc, pstream,
                   primeRuns, primeErr>>

\* Start: m.nc.Subscribe(subject, callback); an error makes Start return.
StartSubscribe ==
    /\ startpc = "subscribe"
    /\ \E ok \in BOOLEAN :
          /\ startpc' = IF ok THEN "ticker" ELSE "returned"
          /\ startErr' = IF ok THEN startErr ELSE "subscribe"
    /\ UNCHANGED <<ctxDone, srv, errCh, connVars, pubVars, ackVars, nfail,
                   statusVars, clock, nback,
                   repeatEvery, state, mu, ingestVars, detached, scanVars,
                   lastEv, primeStream, tctx, ppc, pstream,
                   primeRuns, primeErr>>

\* Start: time.NewTicker(m.cfg.PollEvery); with a status address the
\* channel is made and serveStatus is started; the select loop is entered.
StartTicker ==
    /\ startpc = "ticker"
    /\ startpc' = "loop"
    /\ IF srv = "config"
       THEN srv' = "starting" /\ errCh' = "open"
       ELSE UNCHANGED <<srv, errCh>>
    /\ UNCHANGED <<ctxDone, startErr, connVars, pubVars, ackVars, nfail,
                   statusVars, clock, nback,
                   repeatEvery, state, mu, ingestVars, detached, scanVars,
                   lastEv, primeStream, tctx, ppc, pstream,
                   primeRuns, primeErr>>

\* ------------------------------------------- Start's loop, serveStatus
\* srv is the status server: "none" without cfg.StatusAddr, "config" with
\* one and serveStatus not started, then "starting", "listening", and
\* "failed" (ListenAndServe returned an error), "closed" (Shutdown
\* returned nil) or "shutdown_timeout" (Shutdown ran into its 5 s
\* deadline).  errCh is statusErrCh: "nil", "open", "err" (an error is
\* buffered and the channel closed), "closed".  startErr is what Start
\* returned: "none" while it runs, "nil", or the error.

\* The signal context handed to Start is cancelled.
Cancel ==
    /\ ~ctxDone
    /\ startpc # "returned"
    /\ ctxDone' = TRUE
    /\ tctx' = IF tctx = "live" THEN "canceled" ELSE tctx
    /\ UNCHANGED <<srv, errCh, startErr, connVars, pubVars, ackVars, nfail,
                   statusVars, clock, nback,
                   repeatEvery, state, mu, ingestVars, detached, scanVars,
                   lastEv, startpc, primeStream, ppc, pstream,
                   primeRuns, primeErr>>

\* serveStatus: ListenAndServe has bound the address and serves.
ServeListen ==
    /\ srv = "starting"
    /\ srv' = "listening"
    /\ UNCHANGED <<ctxDone, errCh, startErr, connVars, pubVars, ackVars, nfail,
                   statusVars, startVars, clock, nback,
                   repeatEvery, state, mu, ingestVars, detached, scanVars,
                   lastEv>>

\* serveStatus: ListenAndServe returns an error other than ErrServerClosed
\* (the bind fails, or the listener breaks): `errCh <- err`, close(errCh).
ServeFails ==
    /\ srv \in {"starting", "listening"}
    /\ srv' = "failed"
    /\ errCh' = "err"
    /\ UNCHANGED <<ctxDone, startErr, connVars, pubVars, ackVars, nfail,
                   statusVars, startVars, clock, nback,
                   repeatEvery, state, mu, ingestVars, detached, scanVars,
                   lastEv>>

\* serveStatus, the goroutine waiting on ctx.Done(): server.Shutdown with a
\* 5 s deadline.  ListenAndServe returns ErrServerClosed and errCh is
\* closed; Shutdown returns nil, or its deadline error when a connection is
\* still active, which is logged.
ServeShutdown ==
    /\ ctxDone
    /\ srv \in {"starting", "listening"}
    /\ \E inTime \in BOOLEAN :
          srv' = IF inTime THEN "closed" ELSE "shutdown_timeout"
    /\ errCh' = "closed"
    /\ UNCHANGED <<ctxDone, startErr, connVars, pubVars, ackVars, nfail,
                   statusVars, startVars, clock, nback,
                   repeatEvery, state, mu, ingestVars, detached, scanVars,
                   lastEv>>

\* Start's select, `case <-ctx.Done()`: Start returns nil; the deferred
\* ticker.Stop() and sub.Unsubscribe() run.
\* Start hands the cancellation to its caller as an error.
StartStopReturnsErr ==
    /\ startpc = "loop"
    /\ spc = "idle"
    /\ ctxDone
    /\ startpc' = "returned"
    /\ startErr' = "ctx"
    /\ UNCHANGED <<ctxDone, srv, errCh, connVars, pubVars, ackVars, nfail,
                   statusVars, clock, nback,
                   repeatEvery, state, mu, ingestVars, detached, scanVars,
                   lastEv, primeStream, tctx, ppc, pstream,
                   primeRuns, primeErr>>

\* Start, `case <-ctx.Done()`: return nil.
StartStop ==
    /\ startpc = "loop"
    /\ spc = "idle"
    /\ ctxDone
    /\ startpc' = "returned"
    /\ startErr' = "nil"
    /\ UNCHANGED <<ctxDone, srv, errCh, connVars, pubVars, ackVars, nfail,
                   statusVars, clock, nback,
                   repeatEvery, state, mu, ingestVars, detached, scanVars,
                   lastEv, primeStream, tctx, ppc, pstream,
                   primeRuns, primeErr>>

\* Start's select, `case err, ok := <-statusErrCh` with ok and err != nil:
\* Start returns the wrapped error; the deferred ticker.Stop() and
\* sub.Unsubscribe() run.
StartStatusErr ==
    /\ startpc = "loop"
    /\ spc = "idle"
    /\ errCh = "err"
    /\ errCh' = "closed"
    /\ startpc' = "returned"
    /\ startErr' = "status"
    /\ UNCHANGED <<ctxDone, srv, connVars, pubVars, ackVars, nfail,
                   statusVars, clock, nback,
                   repeatEvery, state, mu, ingestVars, detached, scanVars,
                   lastEv, primeStream, tctx, ppc, pstream,
                   primeRuns, primeErr>>

\* Start's select, the channel is closed and empty: statusErrCh = nil.
StartStatusClosed ==
    /\ startpc = "loop"
    /\ spc = "idle"
    /\ errCh = "closed"
    /\ errCh' = "nil"
    /\ UNCHANGED <<ctxDone, srv, startErr, connVars, pubVars, ackVars, nfail,
                   statusVars, startVars, clock, nback,
                   repeatEvery, state, mu, ingestVars, detached, scanVars,
                   lastEv>>

\* ------------------------------------------------------- connectWithRetry
\* What connectWithRetry leaves alone.
notConnVars ==
    <<pubVars, ackVars, nfail, statusVars, startVars, clock, nback,
      repeatEvery, state, mu, ingestVars, detached, scanVars, lastEv,
      srv, errCh, startErr>>

\* nats.Connect returns a connection: `return nc, nil`.
ConnectOk ==
    /\ cpc = "connect"
    /\ cpc' = "connected"
    /\ UNCHANGED <<backoff, cwaits, celapsed, ctxDone, notConnVars>>

\* nats.Connect returns an error: it is logged and the select is entered,
\* with a timer of `backoff`.
ConnectFails ==
    /\ cpc = "connect"
    /\ Len(cwaits) < MaxRetries
    /\ cpc' = "wait"
    /\ cwaits' = Append(cwaits, backoff)
    /\ celapsed' = 0
    /\ UNCHANGED <<backoff, ctxDone, notConnVars>>

\* A second of the wait goes by.
ConnectWaitSecond ==
    /\ cpc = "wait"
    /\ celapsed < backoff
    /\ celapsed' = celapsed + 1
    /\ UNCHANGED <<cpc, backoff, cwaits, ctxDone, notConnVars>>

\* The signal context of the agent is cancelled.
ConnectCancel ==
    /\ cpc \in {"connect", "wait"}
    /\ ~ctxDone
    /\ ctxDone' = TRUE
    /\ UNCHANGED <<connVars, notConnVars>>

\* select, `case <-ctx.Done()`: `return nil, ctx.Err()`.
ConnectCancelled ==
    /\ cpc = "wait"
    /\ ctxDone
    /\ cpc' = "cancelled"
    /\ UNCHANGED <<backoff, cwaits, celapsed, ctxDone, notConnVars>>

\* The backoff after a wait: doubled, and capped at maxBackoff.
NextBackoffUncapped(b) == IF b < MaxBackoff THEN b * 2 ELSE b

NextBackoff(b) ==
    IF b < MaxBackoff
    THEN IF b * 2 > MaxBackoff THEN MaxBackoff ELSE b * 2
    ELSE b

\* select, `case <-time.After(backoff)`: the backoff is raised and the loop
\* connects again.
ConnectTimerFires ==
    /\ cpc = "wait"
    /\ celapsed = backoff
    /\ backoff' = NextBackoff(backoff)
    /\ cpc' = "connect"
    /\ UNCHANGED <<cwaits, celapsed, ctxDone, notConnVars>>

\* ---------------------------------------------------------------- Publish
\* What Publish leaves alone.
notPubVars ==
    <<connVars, lifeVars, ackVars, nfail, statusVars, startVars, clock,
      nback, repeatEvery, state, mu, ingestVars, detached, scanVars, lastEv>>

\* A faulty applyHostDefault: the local hostname replaces a given host.
applyHostDefaultOverrides(msg, hn) ==
    IF ~hn.err /\ hn.name # "" THEN [msg EXCEPT !.Host = hn.name] ELSE msg

\* applyHostDefault; hn is what hostname() returns.
applyHostDefault(msg, hn) ==
    IF msg.Host # ""
    THEN msg
    ELSE IF ~hn.err /\ hn.name # ""
    THEN [msg EXCEPT !.Host = hn.name]
    ELSE msg

\* Message.Marshal: Validate, then the JSON object of the message.
Marshal(msg) ==
    [err |-> ValidateFails(msg),
     data |-> Payload(msg.Subject, msg.GeneratedAt, msg.Interval,
                      msg.Skippable, msg.GracePeriod, msg.Description,
                      msg.Host)]

\* Publish: a zero GeneratedAt is replaced by time.Now().UTC().
PublishStamp ==
    /\ pubpc = "call"
    /\ pubMsg' = IF pubMsg.GeneratedAt = ZeroTime
                 THEN [pubMsg EXCEPT !.GeneratedAt = clock]
                 ELSE pubMsg
    /\ pubpc' = "host"
    /\ UNCHANGED <<pubArg, pubHostname, pubSent, pubErr, notPubVars>>

\* Publish: msg = applyHostDefault(msg).
PublishHost ==
    /\ pubpc = "host"
    /\ pubMsg' = applyHostDefault(pubMsg, pubHostname)
    /\ pubpc' = "validate"
    /\ UNCHANGED <<pubArg, pubHostname, pubSent, pubErr, notPubVars>>

\* Publish: msg.Validate(), whose error is returned.
PublishValidate ==
    /\ pubpc = "validate"
    /\ IF ValidateFails(pubMsg)
       THEN pubpc' = "returned" /\ pubErr' = "invalid"
       ELSE pubpc' = "marshal" /\ UNCHANGED pubErr
    /\ UNCHANGED <<pubArg, pubMsg, pubHostname, pubSent, notPubVars>>

\* Publish: msg.Marshal(), whose error is returned, then nc.PublishMsg,
\* whose result is returned.
PublishSend ==
    /\ pubpc = "marshal"
    /\ LET r == Marshal(pubMsg)
       IN IF r.err
          THEN pubErr' = "invalid" /\ UNCHANGED pubSent
          ELSE \E ok \in BOOLEAN :
                  IF ok
                  THEN /\ pubSent' = Append(pubSent, r.data)
                       /\ pubErr' = "nil"
                  ELSE /\ pubErr' = "publish"
                       /\ UNCHANGED pubSent
    /\ pubpc' = "returned"
    /\ UNCHANGED <<pubArg, pubMsg, pubHostname, notPubVars>>

\* ------------------------------------------------------------------- Next
Next ==
    \/ Tick
    \/ \E data \in Payloads : IngestDeliver(data)
    \/ IngestRejected
    \/ IngestResolve
    \/ IngestUnlock
    \/ DetachedResolved
    \/ ScanStart
    \/ ScanLock
    \/ \E sub \in Subjects : ScanVisit(sub)
    \/ ScanUnlock
    \/ ScanSendAlert
    \/ ScanSendResolved

\* The monitor on a host whose clock never goes back.
Spec == Init /\ [][Next]_vars

\* The monitor on a host whose clock may also be set back, watching the
\* heartbeats of one subject.
SkewPayloads == {data \in Payloads : data.subject \in {"", "a"}}

NextSkew ==
    \/ Tick
    \/ ClockBack
    \/ \E data \in SkewPayloads : IngestDeliver(data)
    \/ IngestRejected
    \/ IngestResolve
    \/ IngestUnlock
    \/ DetachedResolved
    \/ ScanStart
    \/ ScanLock
    \/ \E sub \in Subjects : ScanVisit(sub)
    \/ ScanUnlock
    \/ ScanSendAlert
    \/ ScanSendResolved

SpecSkew == Init /\ [][NextSkew]_vars

\* The monitor with a notifier whose calls may fail, on a host whose clock
\* may also be set back, watching the heartbeats of one subject.
NotifyPayloads ==
    {data \in ValidPayloads : data.subject = "a" /\ data.grace_period = <<>>}

NextNotify ==
    \/ Tick
    \/ ClockBack
    \/ \E data \in NotifyPayloads : IngestDeliver(data)
    \/ IngestResolve
    \/ IngestUnlock
    \/ DetachedResolved
    \/ DetachedResolvedFailed
    \/ ScanStart
    \/ ScanLock
    \/ \E sub \in Subjects : ScanVisit(sub)
    \/ ScanUnlock
    \/ ScanSendAlert
    \/ ScanAlertFailed
    \/ ScanSendResolved
    \/ ScanResolvedFailed

SpecNotify == Init /\ [][NextNotify]_vars

\* The monitor with its status endpoint, on a host whose clock never goes
\* back, watching fresh heartbeats that set a grace period.
StatusPayloads ==
    {data \in ValidPayloads :
        data.generated_at = clock /\ data.grace_period # <<>>}

NextStatus ==
    \/ Tick
    \/ \E data \in StatusPayloads : IngestDeliver(data)
    \/ IngestResolve
    \/ IngestUnlock
    \/ DetachedResolved
    \/ ScanStart
    \/ ScanLock
    \/ \E sub \in Subjects : ScanVisit(sub)
    \/ ScanUnlock
    \/ ScanSendAlert
    \/ ScanSendResolved
    \/ StatusRequest
    \/ SnapshotLock
    \/ \E sub \in Subjects : SnapshotVisit(sub)
    \/ SnapshotSort
    \/ SnapshotReturn

SpecStatus == Init /\ [][NextStatus]_vars

\* The monitor from the call of Start on, with or without a prime stream.
\* The stream holds, for the consumer, some of: a stale and a fresh
\* heartbeat of "a", a stale heartbeat of "b", a heartbeat without subject.
PrimePayloads ==
    { Payload("a", StartTime, 1, <<>>, <<>>, "", ""),
      Payload("a", StartTime + 1, 2, <<>>, <<3>>, "db", "h1"),
      Payload("b", StartTime, 1, <<2>>, <<0>>, "web", ""),
      Payload("", StartTime, 1, <<>>, <<>>, "", "") }

\* The live traffic after the subscription: fresh heartbeats of "a".
StartPayloads ==
    {data \in ValidPayloads :
        /\ data.subject = "a"
        /\ data.generated_at = clock
        /\ data.grace_period = <<>>}

InitStart ==
    /\ clock = StartTime + 1
    /\ nback = 0
    /\ repeatEvery \in {New(r) : r \in RepeatEveryCfg}
    /\ state = <<>>
    /\ mu = "free"
    /\ ipc = "idle"
    /\ hb = <<>>
    /\ detached = EmptyBag
    /\ spc = "idle"
    /\ snow = ZeroTime
    /\ stodo = {}
    /\ toAlert = <<>>
    /\ toResolve = <<>>
    /\ slocked = <<>>
    /\ lastEv = [s \in Subjects |-> NoEvent]
    /\ ispawn = FALSE
    /\ qpc = "idle"
    /\ qnow = ZeroTime
    /\ qtodo = {}
    /\ subjects = <<>>
    /\ startpc = "start"
    /\ primeStream \in {"", "HEARTBEATS"}
    /\ tctx = "none"
    /\ ppc = "idle"
    /\ pstream \in IF primeStream = "" THEN {{}} ELSE SUBSET PrimePayloads
    /\ primeRuns = 0
    /\ primeErr = 0
    /\ InitAux
    /\ InitClient
    /\ ctxDone = FALSE
    /\ srv = "none"
    /\ errCh = "nil"
    /\ startErr = "none"

NextStart ==
    \/ Tick
    \/ StartBegin
    \/ PrimeJetStream
    \/ PrimeSubscribe
    \/ \E data \in PrimePayloads : PrimeHandle(data)
    \/ PrimeAck
    \/ PrimeTimeout
    \/ PrimeDeadline
    \/ PrimeReadError
    \/ StartPrimed
    \/ StartSubscribe
    \/ StartTicker
    \/ \E data \in StartPayloads : IngestDeliver(data)
    \/ IngestRejected
    \/ IngestResolve
    \/ IngestUnlock
    \/ DetachedResolved
    \/ ScanStart
    \/ ScanLock
    \/ \E sub \in Subjects : ScanVisit(sub)
    \/ ScanUnlock
    \/ ScanSendAlert
    \/ ScanSendResolved

SpecStart == InitStart /\ [][NextStart]_vars

\* The whole life of Start with a status address configured, up to the
\* cancellation of its context: priming, the live subscription, the scan
\* ticker, the status server and its requests.
LifePrimePayloads ==
    { Payload("b", StartTime, 1, <<>>, <<>>, "", "") }

InitLife ==
    /\ clock = StartTime + 2
    /\ nback = 0
    /\ repeatEvery \in {New(r) : r \in RepeatEveryCfg}
    /\ state = <<>>
    /\ mu = "free"
    /\ ipc = "idle"
    /\ hb = <<>>
    /\ detached = EmptyBag
    /\ spc = "idle"
    /\ snow = ZeroTime
    /\ stodo = {}
    /\ toAlert = <<>>
    /\ toResolve = <<>>
    /\ slocked = <<>>
    /\ lastEv = [s \in Subjects |-> NoEvent]
    /\ ispawn = FALSE
    /\ qpc = "idle"
    /\ qnow = ZeroTime
    /\ qtodo = {}
    /\ subjects = <<>>
    /\ startpc = "start"
    /\ primeStream \in {"", "HEARTBEATS"}
    /\ tctx = "none"
    /\ ppc = "idle"
    /\ pstream \in IF primeStream = "" THEN {{}} ELSE SUBSET LifePrimePayloads
    /\ primeRuns = 0
    /\ primeErr = 0
    /\ InitAux
    /\ InitClient
    /\ ctxDone = FALSE
    /\ srv = "config"
    /\ errCh = "nil"
    /\ startErr = "none"

NextLife ==
    \/ Tick
    \/ Cancel
    \/ StartBegin
    \/ PrimeJetStream
    \/ PrimeSubscribe
    \/ \E data \in LifePrimePayloads : PrimeHandle(data)
    \/ PrimeAck
    \/ PrimeTimeout
    \/ PrimeDeadline
    \/ PrimeReadError
    \/ StartPrimed
    \/ StartSubscribe
    \/ StartTicker
    \/ StartStop
    \/ StartStatusErr
    \/ StartStatusClosed
    \/ ServeListen
    \/ ServeFails
    \/ ServeShutdown
    \/ \E data \in StartPayloads : IngestDeliver(data)
    \/ IngestResolve
    \/ IngestUnlock
    \/ DetachedResolved
    \/ ScanStart
    \/ ScanLock
    \/ \E sub \in Subjects : ScanVisit(sub)
    \/ ScanUnlock
    \/ ScanSendAlert
    \/ ScanSendResolved
    \/ StatusRequest
    \/ SnapshotLock
    \/ \E sub \in Subjects : SnapshotVisit(sub)
    \/ SnapshotSort
    \/ SnapshotReturn

SpecLife == InitLife /\ [][NextLife]_vars

\* The monitor watching one subject whose heartbeats stop: none is
\* delivered once the clock reads QuietTime.  The ticker keeps firing, the
\* clock keeps advancing up to MaxTime, and every goroutine that can take a
\* step eventually does (the Go scheduler is fair to runnable goroutines,
\* and the notifier calls of scan are taken to return).
QuietTime == StartTime + 3

QuietPayloads ==
    {data \in ValidPayloads : data.subject = "a" /\ data.grace_period = <<>>}

NextQuiet ==
    \/ Tick
    \/ clock < QuietTime /\ \E data \in QuietPayloads : IngestDeliver(data)
    \/ IngestResolve
    \/ IngestUnlock
    \/ DetachedResolved
    \/ ScanStart
    \/ ScanLock
    \/ \E sub \in Subjects : ScanVisit(sub)
    \/ ScanUnlock
    \/ ScanSendAlert
    \/ ScanSendResolved

FairQuiet ==
    /\ WF_vars(Tick)
    /\ WF_vars(IngestResolve)
    /\ WF_vars(IngestUnlock)
    /\ WF_vars(ScanStart)
    /\ WF_vars(ScanLock)
    /\ WF_vars(\E sub \in Subjects : ScanVisit(sub))
    /\ WF_vars(ScanUnlock)
    /\ WF_vars(ScanSendAlert)
    /\ WF_vars(ScanSendResolved)

SpecQuiet == Init /\ [][NextQuiet]_vars /\ FairQuiet

\* The stream takes one more message while the prime consumer is
\* subscribed: publishers do not stop for the priming.
PrimeArrive(data) ==
    /\ ppc \in {"next", "handle"}
    /\ data \notin pstream
    /\ pstream' = pstream \cup {data}
    /\ UNCHANGED <<farVars, ackVars, nfail, statusVars, clock, nback,
                   repeatEvery, state, mu, ingestVars, detached, scanVars,
                   lastEv, startpc, primeStream, tctx, ppc,
                   primeRuns, primeErr>>

\* Start up to the return of primeCache, with a stream that never runs
\* dry and a context that may be cancelled.  The timer of timeoutCtx
\* fires; a read on a context that is done returns; handleMessage, alone
\* with the lock, goes on; nothing else is taken for granted.
NextPrime ==
    \/ Tick
    \/ Cancel
    \/ StartBegin
    \/ PrimeJetStream
    \/ PrimeSubscribe
    \/ \E data \in PrimePayloads : PrimeArrive(data)
    \/ \E data \in PrimePayloads : PrimeHandle(data)
    \/ PrimeAck
    \/ PrimeTimeout
    \/ PrimeDeadline
    \/ PrimeReadError
    \/ StartPrimed
    \/ IngestRejected
    \/ IngestResolve
    \/ IngestUnlock

FairPrime ==
    /\ WF_vars(PrimeJetStream)
    /\ WF_vars(PrimeSubscribe)
    /\ WF_vars(PrimeTimeout)
    /\ WF_vars(PrimeDeadline)
    /\ WF_vars(tctx = "canceled" /\ PrimeReadError)
    /\ WF_vars(PrimeAck)
    /\ WF_vars(IngestRejected)
    /\ WF_vars(IngestResolve)
    /\ WF_vars(IngestUnlock)

SpecPrime == InitStart /\ [][NextPrime]_vars /\ FairPrime

\* The monitor with its status endpoint, where only the lock is fair: a
\* goroutine inside its critical section goes on, and sync.Mutex hands the
\* lock to a goroutine that keeps waiting for it.  Deliveries, ticks,
\* requests and the notifier's answers come or do not come.
NextLock ==
    \/ Tick
    \/ \E data \in QuietPayloads : IngestDeliver(data)
    \/ IngestResolve
    \/ IngestUnlock
    \/ DetachedResolved
    \/ ScanStart
    \/ ScanLock
    \/ \E sub \in Subjects : ScanVisit(sub)
    \/ ScanUnlock
    \/ ScanSendAlert
    \/ ScanSendResolved
    \/ StatusRequest
    \/ SnapshotLock
    \/ \E sub \in Subjects : SnapshotVisit(sub)
    \/ SnapshotSort
    \/ SnapshotReturn

FairLock ==
    /\ SF_vars(ScanLock)
    /\ SF_vars(SnapshotLock)
    /\ WF_vars(IngestResolve)
    /\ WF_vars(IngestUnlock)
    /\ WF_vars(\E sub \in Subjects : ScanVisit(sub))
    /\ WF_vars(ScanUnlock)
    /\ WF_vars(\E sub \in Subjects : SnapshotVisit(sub))
    /\ WF_vars(SnapshotSort)
    /\ WF_vars(SnapshotReturn)

SpecLock == Init /\ [][NextLock]_vars /\ FairLock

\* The running monitor, with its status server, up to and after the
\* cancellation of its context.  select picks at random among its ready
\* cases, so a case that is ready again and again is eventually taken; a
\* goroutine that can run eventually does, sync.Mutex hands the lock to a
\* waiter that keeps asking, and the notifier calls of scan return.
NextStop ==
    \/ Tick
    \/ Cancel
    \/ StartStop
    \/ StartStatusErr
    \/ StartStatusClosed
    \/ ServeFails
    \/ ServeShutdown
    \/ \E data \in QuietPayloads : IngestDeliver(data)
    \/ IngestResolve
    \/ IngestUnlock
    \/ DetachedResolved
    \/ ScanStart
    \/ ScanLock
    \/ \E sub \in Subjects : ScanVisit(sub)
    \/ ScanUnlock
    \/ ScanSendAlert
    \/ ScanSendResolved

FairStop ==
    /\ SF_vars(StartStop)
    /\ SF_vars(ScanLock)
    /\ WF_vars(IngestResolve)
    /\ WF_vars(IngestUnlock)
    /\ WF_vars(\E sub \in Subjects : ScanVisit(sub))
    /\ WF_vars(ScanUnlock)
    /\ WF_vars(ScanSendAlert)
    /\ WF_vars(ScanSendResolved)

SpecStop == Init /\ [][NextStop]_vars /\ FairStop

\* The monitor fed heartbeats whose grace is shorter than, longer than, or
\* left to default to the interval.
MissPayloads ==
    { Payload("a", clock, 3, <<>>, <<1>>, "", ""),
      Payload("a", clock, 2, <<>>, <<3>>, "db", "h1"),
      Payload("b", clock, 1, <<>>, <<>>, "web", "") }

NextMiss ==
    \/ Tick
    \/ \E data \in MissPayloads : IngestDeliver(data)
    \/ IngestResolve
    \/ IngestUnlock
    \/ DetachedResolved
    \/ ScanStart
    \/ ScanLock
    \/ \E sub \in Subjects : ScanVisit(sub)
    \/ ScanUnlock
    \/ ScanSendAlert
    \/ ScanSendResolved

SpecMiss == Init /\ [][NextMiss]_vars

\* A process in which no monitor has been started.
NoMonitor ==
    /\ clock = StartTime + 1
    /\ nback = 0
    /\ repeatEvery = DefaultRepeatEvery
    /\ state = <<>>
    /\ mu = "free"
    /\ ipc = "idle"
    /\ hb = <<>>
    /\ detached = EmptyBag
    /\ spc = "idle"
    /\ snow = ZeroTime
    /\ stodo = {}
    /\ toAlert = <<>>
    /\ toResolve = <<>>
    /\ slocked = <<>>
    /\ lastEv = [s \in Subjects |-> NoEvent]
    /\ ispawn = FALSE
    /\ qpc = "idle"
    /\ qnow = ZeroTime
    /\ qtodo = {}
    /\ subjects = <<>>
    /\ startpc = "start"
    /\ primeStream = ""
    /\ tctx = "none"
    /\ ppc = "idle"
    /\ pstream = {}
    /\ primeRuns = 0
    /\ primeErr = 0
    /\ InitAux
    /\ srv = "none"
    /\ errCh = "nil"
    /\ startErr = "none"

\* The agent calls connectWithRetry.
InitConnect ==
    /\ NoMonitor
    /\ ctxDone = FALSE
    /\ cpc = "connect"
    /\ backoff = InitialBackoff
    /\ cwaits = <<>>
    /\ celapsed = 0
    /\ pubpc = "idle"
    /\ pubArg = ZeroMessage
    /\ pubMsg = ZeroMessage
    /\ pubHostname = [name |-> "", err |-> FALSE]
    /\ pubSent = <<>>
    /\ pubErr = "none"

NextConnect ==
    \/ ConnectOk
    \/ ConnectFails
    \/ ConnectWaitSecond
    \/ ConnectCancel
    \/ ConnectCancelled
    \/ ConnectTimerFires

SpecConnect == InitConnect /\ [][NextConnect]_vars

\* The messages Publish is called with.
PubMessages ==
    [Subject : {"", "a"},
     GeneratedAt : {ZeroTime, StartTime},
     Interval : {-1, 0, 1},
     Skippable : {<<>>, <<-1>>},
     GracePeriod : {<<>>, <<-1>>, <<2>>},
     Description : {""},
     Host : {"", "explicit"}]

\* What hostname() returns: a name, an empty name, or an error.
Hostnames ==
    { [name |-> "local-host", err |-> FALSE],
      [name |-> "", err |-> FALSE],
      [name |-> "", err |-> TRUE],
      [name |-> "local-host", err |-> TRUE] }

\* Publish is called on a connected publisher.
InitPublish ==
    /\ NoMonitor
    /\ ctxDone = FALSE
    /\ cpc = "connected"
    /\ backoff = InitialBackoff
    /\ cwaits = <<>>
    /\ celapsed = 0
    /\ pubpc = "call"
    /\ pubArg \in PubMessages
    /\ pubMsg = pubArg
    /\ pubHostname \in Hostnames
    /\ pubSent = <<>>
    /\ pubErr = "none"

NextPublish ==
    \/ PublishStamp
    \/ PublishHost
    \/ PublishValidate
    \/ PublishSend

SpecPublish == InitPublish /\ [][NextPublish]_vars

\* ================================================================= claims
\* The allowed window as the specification states it.
SpecWindow(s) ==
    IF s.grace # <<>> /\ s.grace[1] > 0 THEN s.grace[1] ELSE s.interval

\* The allowed window a heartbeat asks for, whatever its skippable count.
MessageWindow(m) ==
    IF m.GracePeriod # <<>> /\ m.GracePeriod[1] > 0
    THEN m.GracePeriod[1]
    ELSE m.Interval

\* scan's range loop is over and the lock is about to be released.
ScanLoopDone == spc = "iter" /\ stodo = {}

\* The Alert events scan has collected for a subject in this tick.
AlertsFor(sub) == {i \in DOMAIN toAlert : toAlert[i].Subject = sub}

\* This step appends an Alert event for the subject to toAlert.
AlertCollected(sub) ==
    /\ Len(toAlert') = Len(toAlert) + 1
    /\ toAlert'[Len(toAlert')].Subject = sub

\* This step emits a Resolved event for the subject: handleMessage starts
\* the goroutine, or scan appends to toResolve.
ResolvedEmitted(sub) ==
    \/ CopiesIn(sub, detached') > CopiesIn(sub, detached)
    \/ /\ Len(toResolve') = Len(toResolve) + 1
       /\ toResolve'[Len(toResolve')].Subject = sub

\* C1: for every stored subject allowedWindow() is the grace when the grace
\* is set and positive and the interval otherwise; right after a heartbeat
\* has been applied it is the window that heartbeat asks for, whatever the
\* heartbeat's skippable count.
C1_AllowedWindow ==
    /\ \A sub \in DOMAIN state :
          allowedWindow(state[sub]) =
              IF state[sub].grace # <<>> /\ state[sub].grace[1] > 0
              THEN state[sub].grace[1]
              ELSE state[sub].interval
    /\ ipc \in {"added", "resolve", "unlock"} =>
          allowedWindow(state[hb[1].Subject]) = MessageWindow(hb[1])

\* C1's case: a heartbeat with a skippable count and a zero grace has been
\* applied while another subject runs on a positive grace.
C1_Witness ==
    /\ ipc \in {"added", "unlock"}
    /\ hb[1].Skippable # <<>>
    /\ hb[1].GracePeriod = <<0>>
    /\ \E sub \in DOMAIN state :
          /\ state[sub].grace # <<>>
          /\ state[sub].grace[1] > state[sub].interval

\* C2: when a scan taken at `now` has visited every subject, each subject
\* that was not alerting and had now - lastSeen > allowedWindow() when the
\* scan took the lock is alerting, with lastAlert = now and
\* missCount = floor((now - lastSeen) / interval), and exactly one Alert
\* event for it has been collected in this tick.
C2_NewMissAlerts ==
    ScanLoopDone =>
        \A sub \in DOMAIN slocked :
            LET s0 == slocked[sub]
            IN (~s0.alertActive /\ snow - s0.lastSeen > SpecWindow(s0)) =>
                  /\ state[sub].alertActive
                  /\ state[sub].lastAlert = snow
                  /\ state[sub].missCount =
                        (snow - s0.lastSeen) \div s0.interval
                  /\ Cardinality(AlertsFor(sub)) = 1

\* C2's case: one tick has moved both subjects from OK to MISSING.
C2_Witness ==
    /\ ScanLoopDone
    /\ DOMAIN slocked = Subjects
    /\ \A sub \in Subjects :
          /\ ~slocked[sub].alertActive
          /\ snow - slocked[sub].lastSeen > SpecWindow(slocked[sub])
          /\ state[sub].alertActive

\* C3: when a scan releases the lock, every subject whose elapsed time
\* (the scan's now - lastSeen) is within its allowed window is not alerting.
C3_WithinWindowNotAlerting ==
    ScanLoopDone =>
        \A sub \in DOMAIN state :
            snow - state[sub].lastSeen <= SpecWindow(state[sub]) =>
                ~state[sub].alertActive

\* C3's case: the scan found an alerting subject back within its window
\* and has cleared the alert.
C3_Witness ==
    /\ ScanLoopDone
    /\ \E sub \in DOMAIN slocked :
          /\ slocked[sub].alertActive
          /\ snow - slocked[sub].lastSeen <= SpecWindow(slocked[sub])
          /\ ~state[sub].alertActive

C5_AlertsRepeatEveryApart ==
    [][\A sub \in Subjects :
          (lastEv[sub].kind = "alert" /\ AlertCollected(sub)) =>
              snow - lastEv[sub].at >= repeatEvery]_vars

\* C5's case: a second Alert has been collected exactly repeatEvery after
\* the first, the subject alerting all along.
C5_Witness ==
    /\ spc = "iter"
    /\ \E sub \in DOMAIN slocked :
          /\ slocked[sub].alertActive
          /\ AlertsFor(sub) # {}
          /\ snow - slocked[sub].lastAlert = repeatEvery
          /\ lastEv[sub] = [kind |-> "alert", by |-> "scan", at |-> snow]

\* C6: a scan over an alerting subject with now - lastAlert >= repeatEvery
\* collects one more Alert event for it, carrying the miss duration
\* now - lastSeen and the miss count floor((now - lastSeen) / interval),
\* and sets lastAlert = now.
C6_RepeatAlertWhenDue ==
    ScanLoopDone =>
        \A sub \in DOMAIN slocked :
            LET s0 == slocked[sub]
            IN (s0.alertActive /\ snow - s0.lastAlert >= repeatEvery) =>
                  /\ Cardinality(AlertsFor(sub)) = 1
                  /\ \A i \in AlertsFor(sub) :
                        /\ toAlert[i].MissFor = snow - s0.lastSeen
                        /\ toAlert[i].MissCount =
                              (snow - s0.lastSeen) \div s0.interval
                        /\ toAlert[i].LastSeen = s0.lastSeen
                  /\ state[sub].alertActive
                  /\ state[sub].lastAlert = snow

\* C6's case: the repeated Alert carries a miss count above the one the
\* first Alert left in the state.
C6_Witness ==
    /\ ScanLoopDone
    /\ \E sub \in DOMAIN slocked :
          /\ slocked[sub].alertActive
          /\ snow - slocked[sub].lastAlert >= repeatEvery
          /\ \E i \in AlertsFor(sub) :
                toAlert[i].MissCount > slocked[sub].missCount

\* C7: when handleMessage finds the heartbeat's subject alerting it leaves
\* it with alertActive = false and missCount = 0 and starts exactly one
\* Resolved call; and once a heartbeat has resolved a subject, no step of
\* the ingest path or of a scan emits another Resolved for it until it has
\* alerted again.
C7_HeartbeatResolvesOnce ==
    [][\A sub \in Subjects :
          /\ ( /\ ipc = "resolve"
               /\ ipc' = "unlock"
               /\ hb[1].Subject = sub
               /\ state[sub].alertActive )
             => /\ ~state'[sub].alertActive
                /\ state'[sub].missCount = 0
                /\ CopiesIn(sub, detached') = CopiesIn(sub, detached) + 1
                /\ BagCardinality(detached') = BagCardinality(detached) + 1
                /\ toResolve' = toResolve
                /\ lastEv'[sub].kind = "resolved"
          /\ (lastEv[sub].kind = "resolved" /\ lastEv[sub].by = "ingest")
             => ~ResolvedEmitted(sub)]_vars

\* C7's case: a fresh heartbeat has just resolved an alerting subject.
C7_Witness ==
    /\ ipc = "unlock"
    /\ hb[1].GeneratedAt = clock
    /\ lastEv[hb[1].Subject].kind = "resolved"
    /\ lastEv[hb[1].Subject].by = "ingest"
    /\ ~state[hb[1].Subject].alertActive
    /\ state[hb[1].Subject].missCount = 0
    /\ CopiesIn(hb[1].Subject, detached) = 1

\* C8: a valid heartbeat for a subject not in the store creates its state
\* from the message (lastSeen, interval, grace, host, and the description or
\* else the subject), not alerting, with missCount 0 and a zero lastAlert;
\* no other entry changes and neither an Alert nor a Resolved is emitted,
\* whatever the heartbeat's generated-at time.
C8_FirstContact ==
    [][( /\ ipc = "idle"
         /\ ipc' \in {"added", "resolve", "unlock"}
         /\ hb'[1].Subject \notin DOMAIN state )
       => LET m == hb'[1]
          IN /\ ipc' = "added"
             /\ DOMAIN state' = DOMAIN state \cup {m.Subject}
             /\ \A sub \in DOMAIN state : state'[sub] = state[sub]
             /\ state'[m.Subject] =
                   [subject |-> m.Subject,
                    description |-> IF m.Description = ""
                                    THEN m.Subject
                                    ELSE m.Description,
                    host |-> m.Host,
                    lastSeen |-> m.GeneratedAt,
                    interval |-> m.Interval,
                    grace |-> m.GracePeriod,
                    alertActive |-> FALSE,
                    missCount |-> 0,
                    lastAlert |-> ZeroTime]
             /\ UNCHANGED <<detached, toAlert, toResolve, lastEv>>]_vars

\* C8's case: the first heartbeat of a subject, stale and without a
\* description, has been stored beside another subject.
C8_Witness ==
    /\ ipc = "added"
    /\ hb[1].Description = ""
    /\ hb[1].GeneratedAt < clock
    /\ state[hb[1].Subject].description = hb[1].Subject
    /\ state[hb[1].Subject].lastSeen = hb[1].GeneratedAt
    /\ Cardinality(DOMAIN state) = 2

\* C9: whenever the lock is free, a subject that is not alerting has a zero
\* lastAlert.
C9_LastAlertZeroWhenOk ==
    mu = "free" =>
        \A sub \in DOMAIN state :
            ~state[sub].alertActive => state[sub].lastAlert = ZeroTime

\* C10: whenever the lock is free, a subject that is not alerting has
\* missCount = 0; missCount changes only when a scan finds
\* elapsed > allowedWindow() (to floor(elapsed / interval)) or when the
\* subject goes back to OK (to 0).
C10_MissCountZeroWhenOk ==
    [][/\ mu' = "free" =>
             \A sub \in DOMAIN state' :
                 ~state'[sub].alertActive => state'[sub].missCount = 0
       /\ \A sub \in DOMAIN state :
             state'[sub].missCount # state[sub].missCount =>
                 \/ /\ spc = "iter"
                    /\ sub \in stodo
                    /\ snow - state[sub].lastSeen > SpecWindow(state[sub])
                    /\ state'[sub].missCount =
                          (snow - state[sub].lastSeen) \div state[sub].interval
                 \/ /\ state[sub].alertActive
                    /\ ~state'[sub].alertActive
                    /\ state'[sub].missCount = 0]_vars

\* C10's case: a scan has taken a subject with a positive miss count back
\* to OK, and the lock is free again.
C10_Witness ==
    /\ mu = "free"
    /\ \E sub \in DOMAIN state :
          /\ lastEv[sub].kind = "resolved"
          /\ lastEv[sub].by = "scan"
          /\ ~state[sub].alertActive
          /\ state[sub].missCount = 0
          /\ \E i \in DOMAIN toResolve :
                toResolve[i].Subject = sub /\ toResolve[i].MissCount > 0

\* snapshot holds the lock: its range loop, its sort, its return.
InSnapshot == qpc \in {"iter", "return"}

\* handleMessage holds the lock.
InIngest == ipc \in {"added", "resolve", "unlock"}

\* scan holds the lock.
InScan == spc = "iter"

\* The entries snapshot has built for a subject.
EntriesFor(sub) == {i \in DOMAIN subjects : subjects[i].Subject = sub}

\* C11: snapshot is a pure read: no step of a status request, whatever the
\* state and its `now`, changes a field of a stored subject or the key set,
\* or emits an Alert or a Resolved event.
C11_SnapshotPureRead ==
    [][statusVars' # statusVars =>
          /\ state' = state
          /\ detached' = detached
          /\ toAlert' = toAlert
          /\ toResolve' = toResolve
          /\ lastEv' = lastEv]_vars

\* C11's case: snapshot reports a subject as missing that is not alerting,
\* and the subject is still not alerting.
C11_Witness ==
    /\ qpc = "return"
    /\ \E i \in DOMAIN subjects :
          /\ subjects[i].Missing
          /\ ~subjects[i].AlertActive
          /\ ~state[subjects[i].Subject].alertActive
          /\ state[subjects[i].Subject].missCount = 0

\* C12: every entry snapshot(now) builds reports the allowed window of its
\* subject, missing = (now - lastSeen > allowed window), when missing the
\* miss duration now - lastSeen and the miss count
\* floor((now - lastSeen) / interval), when not missing an empty miss
\* duration and a zero miss count, and the stored alertActive.
C12_SnapshotRecomputes ==
    InSnapshot =>
        \A i \in DOMAIN subjects :
            LET e == subjects[i]
                s == state[e.Subject]
                elapsed == qnow - s.lastSeen
            IN /\ e.AllowedWindow = DurationString(SpecWindow(s))
               /\ e.Missing = (elapsed > SpecWindow(s))
               /\ e.Missing =>
                     /\ e.MissFor = DurationString(elapsed)
                     /\ e.MissCount = elapsed \div s.interval
               /\ ~e.Missing =>
                     /\ e.MissFor = ""
                     /\ e.MissCount = 0
               /\ e.AlertActive = s.alertActive

\* C12's case: the snapshot reports a miss count above the one the last
\* scan stored for an alerting subject, beside a subject that is not
\* missing.
C12_Witness ==
    /\ qpc = "return"
    /\ \E i, j \in DOMAIN subjects :
          /\ subjects[i].Missing
          /\ subjects[i].AlertActive
          /\ subjects[i].MissCount > state[subjects[i].Subject].missCount
          /\ state[subjects[i].Subject].missCount > 0
          /\ ~subjects[j].Missing

\* C13: what snapshot returns has exactly one entry for each subject stored
\* while it holds the lock, in strictly ascending order of subject name.
C13_SnapshotSorted ==
    qpc = "return" =>
        /\ Len(subjects) = Cardinality(DOMAIN state)
        /\ \A sub \in DOMAIN state : Cardinality(EntriesFor(sub)) = 1
        /\ \A i, j \in DOMAIN subjects :
              i < j => ByteOf[subjects[i].Subject] < ByteOf[subjects[j].Subject]

\* C13's case: snapshot returns two subjects, "a" first.
C13_Witness ==
    /\ qpc = "return"
    /\ Len(subjects) = 2
    /\ subjects[1].Subject = "a"
    /\ subjects[2].Subject = "b"

\* C14: at most one of handleMessage, scan and snapshot is inside its
\* critical section, and it is the one m.mu says; so while an ingest update
\* is partly applied (the fields overwritten, the alert not yet cleared)
\* neither scan nor snapshot reads the state.
C14_MutualExclusion ==
    /\ ~(InIngest /\ InScan)
    /\ ~(InIngest /\ InSnapshot)
    /\ ~(InScan /\ InSnapshot)
    /\ InIngest <=> mu = "ingest"
    /\ InScan <=> mu = "scan"
    /\ InSnapshot <=> mu = "status"
    /\ ipc = "resolve" => ~InScan /\ ~InSnapshot

\* C14's case: an ingest has overwritten lastSeen of an alerting subject
\* and not yet cleared the alert, while a scan and a snapshot wait for the
\* lock.
C14_Witness ==
    /\ ipc = "resolve"
    /\ state[hb[1].Subject].alertActive
    /\ state[hb[1].Subject].lastSeen = hb[1].GeneratedAt
    /\ spc = "lock"
    /\ qpc = "lock"

\* A goroutine started by handleMessage runs its Resolved call for the
\* subject in this step.
GoroutineRuns(sub) == CopiesIn(sub, detached') < CopiesIn(sub, detached)

\* The only pending Resolved call for the subject is the one started by the
\* handleMessage that is still inside its critical section.
ProducerHoldsLock(sub) ==
    /\ ipc = "unlock"
    /\ ispawn
    /\ hb[1].Subject = sub
    /\ CopiesIn(sub, detached) = 1

\* scan calls the notifier for an event of its lists in this step.
ScanCallsNotifier ==
    /\ spc \in {"alerts", "resolves"}
    /\ Len(toAlert') < Len(toAlert) \/ Len(toResolve') < Len(toResolve)

\* C15: a notifier call for an event starts only after the critical
\* section that produced the event has been left: scan calls the notifier
\* for its lists when it has released the lock, and a Resolved call started
\* by handleMessage runs when that handleMessage has released the lock.
C15_DispatchAfterUnlock ==
    [][/\ ScanCallsNotifier => mu # "scan"
       /\ \A sub \in Subjects :
             GoroutineRuns(sub) => ~ProducerHoldsLock(sub)]_vars

\* The scan loop is inside, or about to enter, a notifier call.
ScanInNotifierCall ==
    \/ spc = "alerts" /\ toAlert # <<>>
    \/ spc = "resolves" /\ toResolve # <<>>

\* A notifier call has been decided and has not returned.
NotifierCallPending == detached # EmptyBag \/ ScanInNotifierCall

\* C16: while a notifier call is pending (it may never return), the scan
\* loop is not held up by it: the next tick can be taken, or a scan is on
\* its way to the range loop, or it has nothing left to send.
C16_DispatchDetached ==
    NotifierCallPending =>
        \/ ENABLED ScanStart
        \/ spc \in {"lock", "iter"}
        \/ spc = "alerts" /\ toAlert = <<>>
        \/ spc = "resolves" /\ toResolve = <<>>

\* The Resolved events scan has collected for a subject in this tick.
ResolvesFor(sub) == {i \in DOMAIN toResolve : toResolve[i].Subject = sub}

\* C17: a fresh heartbeat racing with a scan tick.  If the ingest takes the
\* lock first (the scan finds lastSeen at or after its `now`), the scan
\* leaves the subject as the ingest left it, not alerting and with
\* missCount 0, and collects no event for it.  Whenever an ingest gets to
\* its resolve step (a scan may have alerted just before), the subject ends
\* not alerting, with missCount 0 and lastSeen the heartbeat's time, and
\* one Resolved call is started if the subject was alerting when the ingest
\* took the lock, none otherwise.
C17_RaceEitherOrder ==
    [][/\ ScanLoopDone =>
             \A sub \in DOMAIN slocked :
                 slocked[sub].lastSeen >= snow =>
                     /\ state[sub] = slocked[sub]
                     /\ ~state[sub].alertActive
                     /\ state[sub].missCount = 0
                     /\ AlertsFor(sub) = {}
                     /\ ResolvesFor(sub) = {}
       /\ (ipc = "resolve" /\ ipc' = "unlock") =>
             LET sub == hb[1].Subject
             IN /\ ~state'[sub].alertActive
                /\ state'[sub].missCount = 0
                /\ state'[sub].lastSeen = hb[1].GeneratedAt
                /\ CopiesIn(sub, detached') =
                      CopiesIn(sub, detached) +
                          (IF state[sub].alertActive THEN 1 ELSE 0)
                /\ BagCardinality(detached') =
                      BagCardinality(detached) +
                          (IF state[sub].alertActive THEN 1 ELSE 0)
                /\ toResolve' = toResolve]_vars

\* C17's case: the subject was alerting before the race, the ingest of a
\* fresh heartbeat took the lock first and resolved it, and the scan that
\* had read its `now` before has visited it.
C17_Witness ==
    /\ ScanLoopDone
    /\ \E sub \in DOMAIN slocked :
          /\ slocked[sub].lastSeen >= snow
          /\ slocked[sub].lastAlert # ZeroTime
          /\ lastEv[sub].kind = "resolved"
          /\ lastEv[sub].by = "ingest"
          /\ CopiesIn(sub, detached) = 1
          /\ ~state[sub].alertActive

\* A message that passes validation.
ValidMessage(m) ==
    /\ m.Subject # ""
    /\ m.GeneratedAt # ZeroTime
    /\ m.Interval > 0
    /\ m.Skippable = <<>> \/ m.Skippable[1] >= 0
    /\ m.GracePeriod = <<>> \/ m.GracePeriod[1] >= 0

\* C18: a payload that fails decoding or validation is dropped: when
\* handleMessage rejects a payload and when it returns afterwards, the
\* store, the lock and the events are as they were, and the callback is
\* ready for the next message; every message that gets to the store has
\* passed validation.
C18_InvalidPayloadDropped ==
    [][/\ (ipc = "idle" /\ ipc' = "rejected") =>
             UNCHANGED <<state, mu, hb, detached, toAlert, toResolve, lastEv>>
       /\ (ipc = "rejected" /\ ipc' # "rejected") =>
             /\ ipc' = "idle"
             /\ UNCHANGED <<state, mu, hb, detached, toAlert, toResolve,
                            lastEv>>
       /\ (ipc = "idle" /\ ipc' \in {"added", "resolve"}) =>
             ValidMessage(hb'[1])
       /\ \A sub \in DOMAIN state' :
             /\ state'[sub].subject # ""
             /\ state'[sub].lastSeen # ZeroTime
             /\ state'[sub].interval > 0]_vars

\* C18's case: a payload has been rejected while both subjects are stored,
\* one of them alerting.
C18_Witness ==
    /\ ipc = "rejected"
    /\ DOMAIN state = Subjects
    /\ \E sub \in Subjects : state[sub].alertActive
    /\ mu = "free"

\* primeCache has run as often as the configuration asks for: once when a
\* prime stream is configured, never otherwise; and it is not running.
PrimeDone ==
    /\ ppc = "idle"
    /\ primeRuns = IF primeStream # "" THEN 1 ELSE 0

\* handleMessage is entered from the live subscription's callback in this
\* step (a primed message is taken off the stream, a live one is not).
LiveDelivery == ipc = "idle" /\ ipc' # "idle" /\ pstream' = pstream

\* C19: with a prime stream configured, primeCache has been run to its
\* return exactly once when Start subscribes to live traffic, when the
\* first live message is handled and when the first scan tick begins;
\* it is entered only once; without a prime stream it is never run.
C19_PrimeOnceBeforeLive ==
    [][/\ startpc' \in {"ticker", "loop"} => PrimeDone'
       /\ LiveDelivery => PrimeDone
       /\ (spc = "idle" /\ spc' # "idle") => PrimeDone
       /\ (ppc = "idle" /\ ppc' # "idle") =>
             primeRuns = 0 /\ primeStream # "" /\ startpc' = "prime"
       /\ primeStream = "" => ppc' = "idle" /\ primeRuns' = 0]_vars

\* C19's case: both subjects have been primed from the stream, primeCache
\* has returned nil, and the scan loop is at work.
C19_Witness ==
    /\ startpc = "loop"
    /\ primeStream # ""
    /\ primeRuns = 1
    /\ primeErr = 0
    /\ DOMAIN state = Subjects
    /\ spc = "iter"

\* C20: a failure of primeCache (JetStream, SubscribeSync, or a read error
\* other than the deadline) changes no stored state, is logged by Start as
\* one warning, and is followed by the live subscription; Start returns
\* only from its connection check and from a failed live Subscribe.
C20_PrimeFailureNotFatal ==
    [][/\ (ppc # "ret_err" /\ ppc' = "ret_err") =>
             state' = state /\ startpc' = "prime"
       /\ (ppc = "ret_err" /\ ppc' # "ret_err") =>
             /\ startpc' = "subscribe"
             /\ primeErr' = primeErr + 1
             /\ state' = state
       /\ (startpc # "returned" /\ startpc' = "returned") =>
             startpc \in {"start", "subscribe"}]_vars

\* C20's case: priming failed after "b" had been primed, and the monitor
\* is scanning with "b" still in the store.
C20_Witness ==
    /\ startpc = "loop"
    /\ primeErr = 1
    /\ "b" \in DOMAIN state
    /\ spc = "iter"

\* ---- C21
\* Start has not yet subscribed: it is at its entry, inside primeCache or
\* just past it.
BeforeSubscribe == startpc \in {"start", "prime", "subscribe"}

\* C21: while Start primes the cache, and when priming has ended, no Alert
\* and no Resolved event has been collected, started in a goroutine or
\* sent, and no subject has alertActive set, whatever messages the prime
\* stream holds (stale ones and several of one subject included).
C21_PrimingIsSilent ==
    BeforeSubscribe =>
        /\ \A k \in DOMAIN state : ~state[k].alertActive
        /\ detached = EmptyBag
        /\ toAlert = <<>>
        /\ toResolve = <<>>
        /\ \A sub \in Subjects : lastEv[sub] = NoEvent

\* primeCache has handled a second message of subject a, the stale one
\* after the fresh one, with subject b stored too.
C21_Witness ==
    /\ startpc = "prime"
    /\ ppc = "handle"
    /\ ipc = "unlock"
    /\ hb[1].Subject = "a"
    /\ hb[1].GeneratedAt = StartTime
    /\ \E data \in acked : data.subject = "a"
    /\ "b" \in DOMAIN state

\* ---- C22
\* C22: every message primeCache has acknowledged was decoded, validated
\* and stored by handleMessage before.
C22_AckOnlyIngested ==
    \A data \in acked : ~Unmarshal(data).err

\* primeCache acknowledges what handleMessage has returned from: the
\* acknowledgement never precedes the handling of its message.
C22_AckAfterHandle ==
    [][acked' # acked =>
        /\ ppc = "handle"
        /\ ipc = "idle"
        /\ acked' = acked \cup {pmsg[1]}]_vars

\* ---- C23
\* A notifier call returns in this step: one of scan's loops, or a
\* goroutine of handleMessage.
NotifierReturns ==
    \/ ScanCallsNotifier
    \/ \E sub \in Subjects : GoroutineRuns(sub)

\* The subject's last event was an Alert and its notifier call failed.
LastAlertFailed(sub) ==
    /\ lastEv[sub].kind = "alert"
    /\ nfail[sub] = [kind |-> "alert", at |-> lastEv[sub].at]

\* C23: a notifier call, failed or not, changes no subject state and puts
\* no event back: a failed call's event leaves its list as a successful
\* one's does. A subject whose last Alert failed gets its next Alert only
\* from a later scan that finds it still missing with
\* now - lastAlert >= repeatEvery, and while a subject's last event is a
\* Resolved whose call failed no further Resolved is emitted for it.
C23_NotifierErrorNoRetry ==
    [][/\ NotifierReturns =>
             /\ state' = state
             /\ Len(toAlert') <= Len(toAlert)
             /\ Len(toResolve') <= Len(toResolve)
             /\ Len(toAlert') + Len(toResolve') + BagCardinality(detached')
                   = Len(toAlert) + Len(toResolve)
                     + BagCardinality(detached) - 1
       /\ \A sub \in Subjects :
             /\ nfail'[sub] # nfail[sub] => NotifierReturns
             /\ (LastAlertFailed(sub) /\ AlertCollected(sub)) =>
                   /\ state[sub].alertActive
                   /\ state[sub].lastAlert = lastEv[sub].at
                   /\ snow > lastEv[sub].at
                   /\ snow - state[sub].lastAlert >= repeatEvery
                   /\ snow - state[sub].lastSeen > allowedWindow(state[sub])
             /\ (lastEv[sub].kind = "resolved"
                    /\ nfail[sub].kind = "resolved")
                => ~ResolvedEmitted(sub)]_vars

\* A subject whose Alert failed has stayed missing and has got its next
\* Alert exactly repeatEvery later.
C23_Witness ==
    /\ spc = "iter"
    /\ \E sub \in DOMAIN slocked :
          /\ nfail[sub] = [kind |-> "alert", at |-> slocked[sub].lastAlert]
          /\ slocked[sub].alertActive
          /\ AlertsFor(sub) # {}
          /\ snow - slocked[sub].lastAlert = repeatEvery

\* A failed Resolved of a scan has left the list and a later scan has
\* visited its subject, which is back to OK.
C23_ResolvedDropped ==
    /\ ScanLoopDone
    /\ \E sub \in DOMAIN state :
          /\ nfail[sub].kind = "resolved"
          /\ nfail[sub].at > ZeroTime
          /\ nfail[sub].at < snow
          /\ lastEv[sub].kind = "resolved"
          /\ ~state[sub].alertActive

\* ---- C24
\* C24: the store is a map from subject names, so it holds one entry per
\* name; in every step the entry under key k has subject = k, no two
\* entries carry the same subject, and every key of before is a key of
\* after, in the steps of ingest, scan, snapshot and priming alike.
C24_OneEntryPerSubject ==
    [][/\ DOMAIN state \subseteq DOMAIN state'
       /\ \A k \in DOMAIN state' : state'[k].subject = k
       /\ \A j, k \in DOMAIN state' :
             state'[j].subject = state'[k].subject => j = k]_vars

\* Subject b was primed and has been alerted by a scan, subject a came in
\* live, was alerted and resolved by a heartbeat, and a snapshot has
\* visited both.
C24_Witness ==
    /\ DOMAIN state = {"a", "b"}
    /\ \E data \in acked : data.subject = "b"
    /\ lastEv["b"].kind = "alert"
    /\ lastEv["a"].kind = "resolved"
    /\ qpc = "return"
    /\ Len(subjects) = 2

\* ---- C26
\* C26: when the status server has failed and the context is not
\* cancelled, Start has not returned: the subscription and the scan ticker
\* are still there.
C26_StatusFailureNotFatal ==
    (srv = "failed" /\ ~ctxDone) => startpc = "loop"

\* ---- C27
\* C27: when the context was cancelled and Shutdown ran into its deadline,
\* a Start that has returned has returned an error.
C27_ShutdownErrorPropagated ==
    (srv = "shutdown_timeout" /\ startpc = "returned") =>
        startErr \notin {"none", "nil"}

\* The shutdown itself is bounded and tied to the cancellation: the server
\* ends in "closed" or "shutdown_timeout" only with the context cancelled,
\* and once it has, it takes no further request.
C27_ShutdownOnCancel ==
    /\ srv \in {"closed", "shutdown_timeout"} => ctxDone
    /\ srv \in {"closed", "shutdown_timeout"} => ~ENABLED StatusRequest

\* ---- C25
\* handleMessage has found its message's subject in the store and
\* overwrites the entry in this step.
KnownSubjectUpdate == ipc = "idle" /\ ipc' = "resolve"

\* C25: handleMessage over a valid heartbeat of a known subject sets
\* lastSeen, interval, grace, host and description (the subject when the
\* message has none) from the message, lastSeen also when the message is
\* older than what is stored, and nothing else in that step; up to its
\* return these five fields, the subject field and lastAlert stay, and no
\* other subject's entry changes.
C25_KnownSubjectOverwrite ==
    [][/\ KnownSubjectUpdate =>
             LET m == hb'[1]
                 sub == m.Subject
             IN /\ sub \in DOMAIN state
                /\ DOMAIN state' = DOMAIN state
                /\ state'[sub] =
                      [state[sub] EXCEPT
                          !.lastSeen = m.GeneratedAt,
                          !.interval = m.Interval,
                          !.grace = m.GracePeriod,
                          !.host = m.Host,
                          !.description = IF m.Description = ""
                                          THEN m.Subject
                                          ELSE m.Description]
                /\ \A other \in DOMAIN state \ {sub} :
                      state'[other] = state[other]
       /\ (ipc = "resolve" /\ ipc' = "unlock") =>
             LET sub == hb[1].Subject
             IN /\ state' = [state EXCEPT
                                ![sub].alertActive = state'[sub].alertActive,
                                ![sub].missCount = state'[sub].missCount]
                /\ state'[sub].subject = sub
                /\ state'[sub].lastSeen = hb[1].GeneratedAt
       /\ (ipc = "unlock" /\ ipc' = "idle") => state' = state]_vars

\* The stale heartbeat of a, with neither description nor host, has
\* overwritten what the fresh one had stored, beside subject b.
C25_Witness ==
    /\ ipc = "resolve"
    /\ hb[1].Subject = "a"
    /\ hb[1].GeneratedAt = StartTime
    /\ \E data \in acked :
          /\ data.subject = "a"
          /\ data.generated_at > StartTime
          /\ data.host # ""
          /\ data.description # ""
    /\ state["a"].lastSeen = StartTime
    /\ state["a"].host = ""
    /\ state["a"].description = "a"
    /\ state["a"].interval = 1
    /\ state["a"].grace = <<>>
    /\ "b" \in DOMAIN state

\* ---- C28
\* The smaller of two numbers.
Min(a, b) == IF a < b THEN a ELSE b

\* C28: the k-th wait connectWithRetry starts lasts min(2^(k-1), 30)
\* seconds; a failed connect is followed by that wait and, the wait over,
\* by the next connect; it returns a connection only from a connect that
\* succeeded, and an error only out of a wait with the context cancelled.
C28_RetryWithBackoff ==
    [][/\ \A k \in DOMAIN cwaits' :
             /\ cwaits'[k] = Min(2^(k - 1), 30)
             /\ cwaits'[k] <= 30
       /\ (cpc = "connect" /\ cpc' # cpc) =>
             \/ cpc' = "connected" /\ cwaits' = cwaits
             \/ cpc' = "wait" /\ Len(cwaits') = Len(cwaits) + 1
       /\ (cpc = "wait" /\ cpc' # cpc) =>
             \/ cpc' = "connect" /\ celapsed = cwaits[Len(cwaits)]
             \/ cpc' = "cancelled" /\ ctxDone
       /\ cpc \in {"connected", "cancelled"} => cpc' = cpc]_vars

\* Seven connects have failed, the last two waits were capped at 30 s, and
\* the eighth connect has returned a connection.
C28_Witness ==
    /\ cpc = "connected"
    /\ ~ctxDone
    /\ Len(cwaits) >= 7
    /\ cwaits[1] = 1
    /\ cwaits[5] = 16
    /\ cwaits[6] = 30
    /\ cwaits[7] = 30

\* ---- C29
\* C29: applyHostDefault, as Publish applies it, returns the message as it
\* is when its Host is not empty; with an empty Host it sets the Host to
\* the name hostname() returns when that returns no error and a non-empty
\* name, and returns the message as it is otherwise; no other field
\* changes.
C29_HostDefault ==
    [][(pubpc = "host" /\ pubpc' = "validate") =>
          LET m == pubMsg
              r == pubMsg'
              hn == pubHostname
          IN /\ m.Host # "" => r = m
             /\ (m.Host = "" /\ ~hn.err /\ hn.name # "") =>
                   r.Host = hn.name
             /\ (m.Host = "" /\ hn.err) => r.Host = ""
             /\ (m.Host = "" /\ hn.name = "") => r.Host = ""
             /\ r = [m EXCEPT !.Host = r.Host]]_vars

\* An empty Host has been replaced by the local hostname.
C29_Witness ==
    /\ pubpc = "validate"
    /\ pubArg.Host = ""
    /\ ~pubHostname.err
    /\ pubMsg.Host = "local-host"

\* A message with a Host has gone through applyHostDefault while
\* hostname() would have returned another name.
C29_ExplicitHostKept ==
    /\ pubpc = "validate"
    /\ pubArg.Host = "explicit"
    /\ pubHostname = [name |-> "local-host", err |-> FALSE]
    /\ pubMsg.Host = "explicit"

\* ---- C30
\* The message Publish validates: its argument, a zero generated-at time
\* replaced by the clock's reading.
Stamped(m) ==
    IF m.GeneratedAt = ZeroTime THEN [m EXCEPT !.GeneratedAt = clock] ELSE m

\* C30: Publish replaces a zero generated-at time by the current time
\* before it validates; when the message then has an empty subject, an
\* interval <= 0 or a negative grace period (or skippable count), Publish
\* returns an error and hands nothing to the connection; whatever it hands
\* to the connection has a subject, a non-zero generated-at time and an
\* interval > 0, and is the stamped message.
C30_PublishValidates ==
    /\ pubpc \in {"host", "validate", "marshal", "returned"} =>
          /\ pubMsg.GeneratedAt # ZeroTime
          /\ pubMsg.GeneratedAt = Stamped(pubArg).GeneratedAt
    /\ (pubpc = "returned" /\ ~ValidMessage(Stamped(pubArg))) =>
          /\ pubSent = <<>>
          /\ pubErr = "invalid"
    /\ (pubpc = "returned" /\ ValidMessage(Stamped(pubArg))) =>
          pubErr \in {"nil", "publish"}
    /\ pubpc # "returned" => pubSent = <<>> /\ pubErr = "none"
    /\ pubSent # <<>> => pubErr = "nil" /\ Len(pubSent) = 1
    /\ \A i \in DOMAIN pubSent :
          /\ pubSent[i].subject # ""
          /\ pubSent[i].generated_at # ZeroTime
          /\ pubSent[i].interval > 0
          /\ pubSent[i].subject = pubArg.Subject
          /\ pubSent[i].generated_at = Stamped(pubArg).GeneratedAt
          /\ pubSent[i].interval = pubArg.Interval

\* Publish was called with a zero generated-at time and an interval of 0:
\* the time was stamped, the validation failed, nothing was sent.
C30_Witness ==
    /\ pubpc = "returned"
    /\ pubArg.Subject # ""
    /\ pubArg.GeneratedAt = ZeroTime
    /\ pubArg.Interval = 0
    /\ pubMsg.GeneratedAt = clock
    /\ pubErr = "invalid"
    /\ pubSent = <<>>

\* Publish was called with a zero generated-at time and has handed the
\* stamped message to the connection.
C30_StampedPublished ==
    /\ pubpc = "returned"
    /\ pubArg.GeneratedAt = ZeroTime
    /\ pubErr = "nil"
    /\ Len(pubSent) = 1
    /\ pubSent[1].generated_at = clock

\* ---- C31
\* This step of scan takes the recovery branch for the subject: it appends
\* a Resolved event for it to toResolve.
ScanRecovers(sub) ==
    /\ Len(toResolve') = Len(toResolve) + 1
    /\ toResolve'[Len(toResolve')].Subject = sub

\* C31: on a host whose clock never goes back, no scan takes the recovery
\* branch: a subject a scan finds alerting has had no heartbeat since its
\* alert (a heartbeat would have cleared alertActive), its elapsed time is
\* above its allowed window, and the scan leaves it alerting.
C31_NoScanRecoveryWithoutSkew ==
    [][\A sub \in Subjects :
          /\ ~ScanRecovers(sub)
          /\ (spc = "iter" /\ sub \in stodo /\ sub \notin stodo'
                /\ state[sub].alertActive) =>
                /\ state[sub].lastSeen = slocked[sub].lastSeen
                /\ snow >= state[sub].lastAlert
                /\ snow - state[sub].lastSeen > allowedWindow(state[sub])
                /\ state'[sub].alertActive]_vars

\* Later scans have visited both subjects while they were alerting, the
\* clock having advanced since their alerts, and have left them alerting.
C31_Witness ==
    /\ ScanLoopDone
    /\ DOMAIN slocked = Subjects
    /\ \A sub \in Subjects :
          /\ slocked[sub].alertActive
          /\ snow > slocked[sub].lastAlert
          /\ state[sub].alertActive
          /\ ResolvesFor(sub) = {}

\* ---- C32
\* The last event decided for the subject is an Alert and scan has called
\* the notifier for it: it has left toAlert.
AlertHanded(sub) ==
    /\ lastEv[sub].kind = "alert"
    /\ AlertsFor(sub) = {}

\* C32: once subject a is known and its heartbeats have stopped, the
\* clock advancing, the ticker firing and the notifier calls returning,
\* the subject eventually is alerting with its Alert handed to the
\* notifier.
C32_SilenceEventuallyAlerts ==
    ("a" \in DOMAIN state /\ clock >= QuietTime)
        ~> ( /\ "a" \in DOMAIN state
             /\ state["a"].alertActive
             /\ AlertHanded("a") )

\* The last heartbeat of a came right before the heartbeats stopped and
\* resolved an earlier alert; a scan after the stop has alerted the
\* subject again and the Alert has been handed to the notifier.
C32_Witness ==
    /\ clock >= QuietTime
    /\ "a" \in DOMAIN state
    /\ state["a"].lastSeen = QuietTime - 1
    /\ state["a"].alertActive
    /\ state["a"].lastAlert > QuietTime
    /\ AlertHanded("a")
    /\ spc = "idle"

\* ---- C33
\* C33: the events decided for a subject alternate by episode. A Resolved
\* is decided, by handleMessage or by scan, only when the subject's last
\* event is an Alert, so the first event is an Alert and two Resolved
\* never follow each other; the subject is alerting exactly while its last
\* event is an Alert.
C33_EventsAlternate ==
    [][\A sub \in Subjects :
          /\ ResolvedEmitted(sub) =>
                /\ lastEv[sub].kind = "alert"
                /\ lastEv'[sub].kind = "resolved"
          /\ AlertCollected(sub) => lastEv'[sub].kind = "alert"
          /\ lastEv'[sub] # lastEv[sub] =>
                ResolvedEmitted(sub) \/ AlertCollected(sub)
          /\ sub \in DOMAIN state' =>
                (state'[sub].alertActive <=> lastEv'[sub].kind = "alert")]_vars

\* A heartbeat has resolved an alert of a, and before the goroutine of that
\* Resolved has run, a scan has alerted the subject again.
C33_Witness ==
    /\ CopiesIn("a", detached) = 1
    /\ lastEv["a"].kind = "alert"
    /\ state["a"].alertActive
    /\ state["a"].lastAlert = snow
    /\ nback = 1

\* ---- C34
\* The notifier's Resolved is called for the subject in this step: by a
\* goroutine of handleMessage, or by scan's second loop.
ResolvedCalled(sub) ==
    \/ GoroutineRuns(sub)
    \/ /\ spc = "resolves"
       /\ toResolve # <<>>
       /\ Head(toResolve).Subject = sub
       /\ toResolve' = Tail(toResolve)

\* C34: when the notifier's Resolved is called for a subject whose last
\* decided event is that Resolved, the Alert of the same episode is not
\* still waiting in scan's toAlert: its notifier call has been made.
C34_ResolvedAfterAlert ==
    [][\A sub \in Subjects :
          ( /\ ResolvedCalled(sub)
            /\ lastEv[sub].kind = "resolved"
            /\ CopiesIn(sub, detached) <= 1 )
          => AlertsFor(sub) = {}]_vars

\* ------------------------------------------------------------------------
\* C35: in every status response a subject reported with alert_active = true
\* is also reported with missing = true, also when the request, whose
\* observation time is read before the lock is taken, overlaps a scan.
C35_AlertActiveImpliesMissing ==
    \A i \in 1..Len(subjects) :
        subjects[i].AlertActive => subjects[i].Missing

\* ------------------------------------------------------------------------
\* The Alert events scan has collected while it still holds the lock.
CollectedAlerts ==
    IF mu = "scan" THEN {toAlert[i] : i \in DOMAIN toAlert} ELSE {}

\* C36: every Alert event carries MissFor = now - lastSeen, which exceeds
\* the allowed window, and MissCount = floor(MissFor / interval); when the
\* allowed window is at least the interval, MissCount >= 1.
C36_AlertMissFields ==
    \A e \in CollectedAlerts :
        LET s == state[e.Subject]
        IN /\ e.MissFor = snow - s.lastSeen
           /\ e.LastSeen = s.lastSeen
           /\ e.MissFor > SpecWindow(s)
           /\ e.Interval = s.interval
           /\ e.MissCount * s.interval <= e.MissFor
           /\ e.MissFor < (e.MissCount + 1) * s.interval
           /\ SpecWindow(s) >= s.interval => e.MissCount >= 1

\* Scan has collected an alert with a count of at least two for a subject
\* whose window is at least its interval.
C36_Witness ==
    \E e \in CollectedAlerts :
        /\ SpecWindow(state[e.Subject]) >= state[e.Subject].interval
        /\ e.MissCount >= 2

\* With a grace shorter than the interval an alert can carry a count of 0.
C36_ShortGraceZeroCount ==
    \E e \in CollectedAlerts :
        /\ SpecWindow(state[e.Subject]) < state[e.Subject].interval
        /\ e.MissCount = 0

\* ------------------------------------------------------------------------
\* Start has returned: its deferred calls have stopped the ticker and
\* removed the subscription, so no scan and no callback starts.
StoppedForGood ==
    /\ startpc = "returned"
    /\ ~ENABLED ScanStart
    /\ \A data \in Payloads : ~ENABLED IngestDeliver(data)

PrimeRunning == ppc \in {"jetstream", "subscribe", "next", "handle"}

\* primeCache has returned (Start may already have taken the result).
PrimeReturned == ppc \in {"ret_nil", "ret_err", "idle"}

\* C38: primeCache always terminates, however many messages the stream
\* delivers; a read that fails returns nil exactly when the 2 s deadline
\* has expired, and the error otherwise, also when the parent context is
\* cancelled before the deadline.
C38_PrimeTerminates ==
    /\ PrimeRunning ~> PrimeReturned
    /\ [][ppc = "next" /\ ppc' = "ret_nil" => tctx = "deadline"]_vars
    /\ [][ppc = "next" /\ ppc' = "ret_err" => tctx # "deadline"]_vars
    /\ [][ppc = "next" /\ tctx = "canceled" /\ ppc' # ppc
            => ppc' = "ret_err"]_vars
    /\ [][ppc = "next" /\ tctx = "deadline" /\ ppc' # ppc
            => ppc' = "ret_nil"]_vars

\* primeCache has returned nil on the deadline after it acknowledged every
\* message of the stream.
C38_Witness ==
    /\ ppc = "ret_nil"
    /\ acked = PrimePayloads

\* primeCache has returned the error of a read on a cancelled context,
\* after it handled a message.
C38_Cancelled ==
    /\ ppc = "ret_err"
    /\ ctxDone
    /\ acked # {}

\* ------------------------------------------------------------------------
\* The goroutine that holds the lock can take its next step, whatever the
\* others, the bus and the notifier do.
HolderCanStep ==
    /\ mu = "ingest" => ENABLED IngestResolve \/ ENABLED IngestUnlock
    /\ mu = "scan" =>
          \/ ENABLED (\E sub \in Subjects : ScanVisit(sub))
          \/ ENABLED ScanUnlock
    /\ mu = "status" =>
          \/ ENABLED (\E sub \in Subjects : SnapshotVisit(sub))
          \/ ENABLED SnapshotSort
          \/ ENABLED SnapshotReturn

\* C39: ingest, scan and status requests never deadlock on the lock: its
\* holder is never in or before a notifier call and can always go on, every
\* holder releases it, and a scan or a status request waiting for it
\* obtains it (so it is free again and again for a waiting callback too).
C39_LockProgress ==
    /\ [](HolderCanStep /\ (mu = "scan" => ~ScanInNotifierCall))
    /\ (mu # "free") ~> (mu = "free")
    /\ (spc = "lock") ~> (mu = "scan")
    /\ (qpc = "lock") ~> (mu = "status")

\* A scan and a status request wait for the lock while handleMessage
\* holds it and a Resolved goroutine it started has not run.
C39_Witness ==
    /\ mu = "ingest"
    /\ spc = "lock"
    /\ qpc = "lock"
    /\ detached # EmptyBag
====
